---------------------------- MODULE Spec2Model ----------------------------
(***************************************************************************)
(* A model of the character statistics and dice-resolution engine of the   *)
(* D&D character tool: the dice roller (characters/services/               *)
(* dice_service.py), the stat calculator (characters/services/             *)
(* calculation_service.py) and the persisted Character row with the        *)
(* request handlers that write it (characters/models.py, serializers.py,   *)
(* viewsets.py, frontend_views.py).                                        *)
(*                                                                         *)
(* Three specifications share the variables:                               *)
(*   SpecDice  one call of a dice operation, its arguments and its random  *)
(*             draws chosen nondeterministically;                          *)
(*   SpecCalc  one stat-calculator query on a character drawn from the     *)
(*             bounded catalog below;                                      *)
(*   Spec      the life of one persisted character row under the request   *)
(*             handlers (a duplicate is followed into the new row).        *)
(***************************************************************************)
EXTENDS Integers, Sequences, FiniteSets, TLC

VARIABLES
    pc,         \* "idle" before an operation is called, "done" after it returned or raised
    call,       \* the operation called and its arguments
    draws,      \* the values random.randint returned during the call, in draw order
    result,     \* what the call returned (kind "value") or raised (kind "error")
    character   \* the persisted character with its owned rows

vars == <<pc, call, draws, result, character>>

(***************************************************************************)
(* Bounds of the model.                                                    *)
(***************************************************************************)
MaxCount == 3       \* largest dice count passed to roll_dice
MaxSides == 3       \* largest die size passed to roll_die / roll_dice
MaxMod   == 1       \* modifiers range over -MaxMod..MaxMod
MaxDrop  == 2       \* drop counts range over -1..MaxDrop

CountArgs == (0 - 1)..MaxCount
SidesArgs == 0..MaxSides
ModArgs   == (0 - MaxMod)..MaxMod
DropArgs  == (0 - 1)..MaxDrop

(***************************************************************************)
(* Python values: None, a returned value, a raised exception.              *)
(***************************************************************************)
NoneVal == [none |-> TRUE]
NoCall == [op |-> "none"]
NoResult == [kind |-> "none"]
Value(v) == [kind |-> "value", value |-> v]
Raised(e) == [kind |-> "error", error |-> e]

RECURSIVE SumSeq(_)
SumSeq(s) == IF s = <<>> THEN 0 ELSE Head(s) + SumSeq(Tail(s))

\* s[k:] of Python for k >= 0
SliceFrom(s, k) == IF k >= Len(s) THEN <<>> ELSE SubSeq(s, k + 1, Len(s))

RECURSIVE InsertAsc(_, _)
InsertAsc(x, s) ==
    IF s = <<>> THEN <<x>>
    ELSE IF x <= Head(s) THEN <<x>> \o s
    ELSE <<Head(s)>> \o InsertAsc(x, Tail(s))

\* sorted(s)
RECURSIVE SortedAsc(_)
SortedAsc(s) == IF s = <<>> THEN <<>> ELSE InsertAsc(Head(s), SortedAsc(Tail(s)))

RECURSIVE Reversed(_)
Reversed(s) == IF s = <<>> THEN <<>> ELSE Reversed(Tail(s)) \o <<Head(s)>>

\* sorted(s, reverse=True)
SortedDesc(s) == Reversed(SortedAsc(s))

(***************************************************************************)
(* Dice engine: dice_service.py                                            *)
(***************************************************************************)
\* roll_die: the guard that raises ValueError
roll_die_invalid(sides) == sides < 1

\* a mutant: the drop guard off by one (> for >=)
roll_dice_invalid_off(count, sides, drop_lowest, drop_highest) ==
    \/ count < 1
    \/ sides < 1
    \/ drop_lowest + drop_highest > count

\* roll_dice: the three guards that raise ValueError, lines 75-80
roll_dice_invalid(count, sides, drop_lowest, drop_highest) ==
    \/ count < 1
    \/ sides < 1
    \/ drop_lowest + drop_highest >= count

\* a mutant: the highest dice are dropped without sorting descending first
roll_dice_kept_unsorted(rolls, drop_lowest, drop_highest) ==
    LET afterLow == IF drop_lowest > 0
                    THEN SliceFrom(SortedAsc(rolls), drop_lowest)
                    ELSE rolls
    IN  IF drop_highest > 0
        THEN SliceFrom(afterLow, drop_highest)
        ELSE afterLow

\* roll_dice: the dice kept after the drop rules, lines 86-93
roll_dice_kept(rolls, drop_lowest, drop_highest) ==
    LET afterLow == IF drop_lowest > 0
                    THEN SliceFrom(SortedAsc(rolls), drop_lowest)
                    ELSE rolls
    IN  IF drop_highest > 0
        THEN SliceFrom(SortedDesc(afterLow), drop_highest)
        ELSE afterLow

\* roll_dice: the DiceRoll built from the dice rolled, lines 95-119
\* (the description string is not modelled)
DiceRoll(count, sides, modifier, drop_lowest, drop_highest, rolls) ==
    [dice_count |-> count,
     dice_size |-> sides,
     modifier |-> modifier,
     individual_rolls |-> rolls,
     total |-> SumSeq(roll_dice_kept(rolls, drop_lowest, drop_highest)) + modifier]

DiceArgs(count, sides, modifier, drop_lowest, drop_highest) ==
    [count |-> count, sides |-> sides, modifier |-> modifier,
     drop_lowest |-> drop_lowest, drop_highest |-> drop_highest]

\* The effect of one roll_dice call on the state: the guards come first, then
\* count dice are drawn, then the result is built.
RollDiceEffect(op, count, sides, modifier, drop_lowest, drop_highest) ==
    /\ pc' = "done"
    /\ call' = [op |-> op,
                args |-> DiceArgs(count, sides, modifier, drop_lowest, drop_highest)]
    /\ IF roll_dice_invalid(count, sides, drop_lowest, drop_highest)
       THEN /\ draws' = <<>>
            /\ result' = Raised("ValueError")
       ELSE \E rolls \in [1..count -> 1..sides] :
                /\ draws' = rolls
                /\ result' = Value(DiceRoll(count, sides, modifier,
                                            drop_lowest, drop_highest, rolls))
    /\ UNCHANGED character

\* DiceRollerService.roll_die(sides)
RollDie ==
    /\ pc = "idle"
    /\ \E sides \in SidesArgs :
        /\ call' = [op |-> "roll_die", args |-> [sides |-> sides]]
        /\ IF roll_die_invalid(sides)
           THEN /\ draws' = <<>>
                /\ result' = Raised("ValueError")
           ELSE \E d \in 1..sides :
                    /\ draws' = <<d>>
                    /\ result' = Value(d)
    /\ pc' = "done"
    /\ UNCHANGED character

\* DiceRollerService.roll_dice(count, sides, modifier, drop_lowest, drop_highest)
RollDice ==
    /\ pc = "idle"
    /\ \E count \in CountArgs, sides \in SidesArgs, modifier \in ModArgs,
          drop_lowest \in DropArgs, drop_highest \in DropArgs :
        RollDiceEffect("roll_dice", count, sides, modifier, drop_lowest, drop_highest)

\* DiceRollerService.roll_ability_score(): roll_dice(4, 6, drop_lowest=1)
AbilityDiceCount == 4
AbilityDiceSides == 6
AbilityDropLowest == 1

RollAbilityScore ==
    /\ pc = "idle"
    /\ RollDiceEffect("roll_ability_score", AbilityDiceCount, AbilityDiceSides, 0,
                      AbilityDropLowest, 0)

NoCharacter == NoneVal

InitDice ==
    /\ pc = "idle"
    /\ call = NoCall
    /\ draws = <<>>
    /\ result = NoResult
    /\ character = NoCharacter

\* a mutant: the lower die is never taken
AdvantageRoll_max(roll1, roll2, modifier, advantage_type) ==
    [roll1 |-> roll1, roll2 |-> roll2,
     result |-> (IF advantage_type \in {"advantage", "disadvantage"}
                 THEN (IF roll1 >= roll2 THEN roll1 ELSE roll2)
                 ELSE roll1) + modifier,
     advantage_type |-> advantage_type]

\* roll_with_advantage: the AdvantageRoll built from the dice rolled
\* (the description string is not modelled)
AdvantageRoll(roll1, roll2, modifier, advantage_type) ==
    [roll1 |-> roll1, roll2 |-> roll2,
     result |-> (IF advantage_type = "advantage"
                 THEN (IF roll1 >= roll2 THEN roll1 ELSE roll2)
                 ELSE IF advantage_type = "disadvantage"
                 THEN (IF roll1 <= roll2 THEN roll1 ELSE roll2)
                 ELSE roll1) + modifier,
     advantage_type |-> advantage_type]

\* the advantage_type strings passed: the three modes and a string that is none of them
AdvantageTypeArgs == {"advantage", "disadvantage", "normal", "lucky"}

\* DiceRollerService.roll_with_advantage(sides, modifier, advantage_type): roll_die
\* once, and once more unless advantage_type is 'normal'
RollWithAdvantage ==
    /\ pc = "idle"
    /\ \E sides \in SidesArgs, modifier \in ModArgs,
          advantage_type \in AdvantageTypeArgs :
        /\ call' = [op |-> "roll_with_advantage",
                    args |-> [sides |-> sides, modifier |-> modifier,
                              advantage_type |-> advantage_type]]
        /\ IF roll_die_invalid(sides)
           THEN /\ draws' = <<>>
                /\ result' = Raised("ValueError")
           ELSE \E roll1 \in 1..sides :
                    IF advantage_type # "normal"
                    THEN \E roll2 \in 1..sides :
                             /\ draws' = <<roll1, roll2>>
                             /\ result' = Value(AdvantageRoll(roll1, roll2, modifier,
                                                              advantage_type))
                    ELSE /\ draws' = <<roll1>>
                         /\ result' = Value(AdvantageRoll(roll1, roll1, modifier,
                                                          advantage_type))
    /\ pc' = "done"
    /\ UNCHANGED character

\* Dice notation: a string is the sequence of its characters.
MaxNotation == 5    \* longest notation string passed to parse_dice_notation

\* the characters notation strings are made of
NotationChars == {"0", "1", "2", "d", "D", "+", "-", " ", "\t"}
NotationArgs == UNION {[1..n -> NotationChars] : n \in 0..MaxNotation}

\* the characters \d matches, by value
DecimalDigits == <<"0", "1", "2", "3", "4", "5", "6", "7", "8", "9">>
IsDigit(c) == \E i \in 1..Len(DecimalDigits) : DecimalDigits[i] = c
DigitValue(c) == (CHOOSE i \in 1..Len(DecimalDigits) : DecimalDigits[i] = c) - 1

\* the whitespace str.strip() removes
Whitespace == {" ", "\t", "\n", "\r", "\f"}

\* str.strip(), on the left
RECURSIVE LStrip(_)
LStrip(s) == IF s # <<>> /\ Head(s) \in Whitespace THEN LStrip(Tail(s)) ELSE s

\* str.strip()
Strip(s) == Reversed(LStrip(Reversed(LStrip(s))))

\* str.lower() on the characters of a notation
LowerChars(s) == [i \in 1..Len(s) |-> IF s[i] = "D" THEN "d" ELSE s[i]]

\* str.replace(" ", "")
RemoveSpaces(s) == LET NotSpace(c) == c # " " IN SelectSeq(s, NotSpace)

\* notation.strip().lower().replace(" ", "")
NormalizeNotation(notation) == RemoveSpaces(LowerChars(Strip(notation)))

\* the length of the longest prefix of digits: what \d+ takes
RECURSIVE DigitRun(_)
DigitRun(s) == IF s # <<>> /\ IsDigit(Head(s)) THEN 1 + DigitRun(Tail(s)) ELSE 0

\* int() of a string of digits
RECURSIVE IntOfDigits(_)
IntOfDigits(s) ==
    IF s = <<>> THEN 0
    ELSE IntOfDigits(SubSeq(s, 1, Len(s) - 1)) * 10 + DigitValue(s[Len(s)])

\* re.match(r'^(\d+)?d(\d+)([+-]\d+)?$', notation): the three groups (an empty string
\* for a group that did not take part), or None
MatchNotation(n) ==
    LET i == DigitRun(n)
        afterD == SubSeq(n, i + 2, Len(n))
        j == DigitRun(afterD)
        rest == SubSeq(afterD, j + 1, Len(afterD))
        ok == /\ Len(n) > i
              /\ n[i + 1] = "d"
              /\ j >= 1
              /\ \/ rest = <<>>
                 \/ /\ Head(rest) \in {"+", "-"}
                    /\ Len(rest) >= 2
                    /\ DigitRun(Tail(rest)) = Len(rest) - 1
    IN  IF ok
        THEN [count_str |-> SubSeq(n, 1, i), sides_str |-> SubSeq(afterD, 1, j),
              modifier_str |-> rest]
        ELSE NoneVal

\* a mutant: a missing count is not defaulted to 1
notation_count_nodefault(count_str) == IntOfDigits(count_str)

\* count = int(count_str) if count_str else 1
notation_count(count_str) == IF count_str # <<>> THEN IntOfDigits(count_str) ELSE 1

\* modifier = int(modifier_str) if modifier_str else 0
notation_modifier(modifier_str) ==
    IF modifier_str = <<>> THEN 0
    ELSE IF Head(modifier_str) = "-" THEN 0 - IntOfDigits(Tail(modifier_str))
    ELSE IntOfDigits(Tail(modifier_str))

\* DiceRollerService.parse_dice_notation(notation): ValueError when the pattern does
\* not match, else roll_dice(count, sides, modifier); notations asking for more than
\* MaxCount dice or MaxSides sides are not passed
ParseDiceNotation ==
    /\ pc = "idle"
    /\ \E notation \in NotationArgs :
        LET match == MatchNotation(NormalizeNotation(notation))
        IN  /\ call' = [op |-> "parse_dice_notation", args |-> [notation |-> notation]]
            /\ IF match = NoneVal
               THEN /\ draws' = <<>>
                    /\ result' = Raised("ValueError")
               ELSE LET count == notation_count(match.count_str)
                        sides == IntOfDigits(match.sides_str)
                        modifier == notation_modifier(match.modifier_str)
                    IN  /\ count <= MaxCount
                        /\ sides <= MaxSides
                        /\ IF roll_dice_invalid(count, sides, 0, 0)
                           THEN /\ draws' = <<>>
                                /\ result' = Raised("ValueError")
                           ELSE \E rolls \in [1..count -> 1..sides] :
                                    /\ draws' = rolls
                                    /\ result' = Value(DiceRoll(count, sides, modifier,
                                                                0, 0, rolls))
    /\ pc' = "done"
    /\ UNCHANGED character

\* DiceRollerService.validate_dice_notation(notation) for a string: the pattern matches
\* the normalized notation (the bare except answers False for what is not a string)
validate_dice_notation(notation) == MatchNotation(NormalizeNotation(notation)) # NoneVal

ValidateDiceNotation ==
    /\ pc = "idle"
    /\ \E notation \in NotationArgs :
        /\ call' = [op |-> "validate_dice_notation", args |-> [notation |-> notation]]
        /\ result' = Value(validate_dice_notation(notation))
    /\ pc' = "done"
    /\ UNCHANGED <<draws, character>>

NextDice ==
    \/ RollDie
    \/ RollDice
    \/ RollAbilityScore
    \/ RollWithAdvantage
    \/ ParseDiceNotation
    \/ ValidateDiceNotation

SpecDice == InitDice /\ [][NextDice]_vars

(***************************************************************************)
(* Reference catalogs (game_content/models.py) and the character row       *)
(* (characters/models.py).  A nullable integer column is <<>> when NULL    *)
(* and <<n>> when set.                                                     *)
(***************************************************************************)
\* ABILITY_CHOICES: the codes stored in ability_name / primary_ability / associated_ability
ABILITY_CHOICES == {"STR", "DEX", "CON", "INT", "WIS", "CHA"}

\* the attribute prefixes of the CharacterAbilities score fields
AbilityFullNames ==
    {"strength", "dexterity", "constitution", "intelligence", "wisdom", "charisma"}

\* str.lower() on the strings the model passes around
Lower(s) ==
    CASE s = "STR" -> "str" [] s = "DEX" -> "dex" [] s = "CON" -> "con"
      [] s = "INT" -> "int" [] s = "WIS" -> "wis" [] s = "CHA" -> "cha"
      [] OTHER -> s

\* str.upper() on the strings the model passes around
Upper(s) ==
    CASE s = "strength" -> "STRENGTH" [] s = "dexterity" -> "DEXTERITY"
      [] s = "constitution" -> "CONSTITUTION" [] s = "intelligence" -> "INTELLIGENCE"
      [] s = "wisdom" -> "WISDOM" [] s = "charisma" -> "CHARISMA"
      [] OTHER -> s

\* getattr(obj, name): the field's value, or AttributeError
GetAttr(obj, name) ==
    IF name \in DOMAIN obj THEN Value(obj[name]) ELSE Raised("AttributeError")

\* DnDClass rows (import_dnd_data_sample.py: Fighter d10 STR, Wizard d6 INT)
\* weapon_proficiencies is a free-form JSON list: weapon categories for the Fighter,
\* a weapon name for the Wizard
Fighter == [name |-> "Fighter", hit_die |-> 10, primary_ability |-> "STR",
            weapon_proficiencies |-> {"simple", "martial"},
            armor_proficiencies |-> {"light", "medium", "heavy", "shields"}]
Wizard == [name |-> "Wizard", hit_die |-> 6, primary_ability |-> "INT",
           weapon_proficiencies |-> {"Dagger"}, armor_proficiencies |-> {}]
DnDClasses == {Fighter, Wizard}

\* Species rows
Dwarf == [name |-> "Dwarf"]
Human == [name |-> "Human"]
SpeciesRows == {Dwarf, Human}

\* Armor sub-record of an Equipment row
ArmorRow(type, ac, limit) == [armor_type |-> type, base_ac |-> ac, dex_bonus_limit |-> limit]
\* Weapon sub-record of an Equipment row
WeaponRow(category, props) == [weapon_category |-> category, properties |-> props]

\* Equipment row; weight is the DecimalField (two decimal places) counted in hundredths
\* of a pound
Item(name, weight, armor, weapon) ==
    [name |-> name, weight |-> weight, armor |-> armor, weapon |-> weapon]

\* Equipment catalog: body armor of each type (medium armor with the limit unset, set to 2
\* and set to 0), a shield stored as an Armor row (import_equipment.py), a shield stored
\* as plain equipment, gear, and weapons.
LeatherArmor == Item("Leather Armor", 1000, ArmorRow("light", 11, <<>>), NoneVal)
ScaleMail    == Item("Scale Mail", 4500, ArmorRow("medium", 14, <<2>>), NoneVal)
HalfPlate    == Item("Half Plate", 4000, ArmorRow("medium", 15, <<>>), NoneVal)
HideArmor    == Item("Hide Armor", 1200, ArmorRow("medium", 12, <<0>>), NoneVal)
ChainMail    == Item("Chain Mail", 5500, ArmorRow("heavy", 16, <<0>>), NoneVal)
ShieldArmor  == Item("Shield", 600, ArmorRow("shield", 2, <<>>), NoneVal)
WoodenShield == Item("Wooden Shield", 600, NoneVal, NoneVal)
Backpack     == Item("Backpack", 500, NoneVal, NoneVal)
Longsword    == Item("Longsword", 300, NoneVal, WeaponRow("martial", {"versatile"}))
Dagger       == Item("Dagger", 100, NoneVal, WeaponRow("simple", {"finesse", "light"}))
Greatsword   == Item("Greatsword", 600, NoneVal, WeaponRow("martial", {"heavy", "two-handed"}))
\* gear whose weight is not a whole number of pounds: 4.65 lb and 6.90 lb
Caltrops     == Item("Caltrops", 465, NoneVal, NoneVal)
Rations      == Item("Rations", 690, NoneVal, NoneVal)

BodyArmors == {LeatherArmor, ScaleMail, HalfPlate, HideArmor, ChainMail}
Shields == {ShieldArmor, WoodenShield}
ArmorCatalog == BodyArmors \cup Shields \cup {Backpack}

\* name__icontains='shield' on the catalog's names
IContainsShield(name) == name \in {"Shield", "Wooden Shield"}

\* CharacterEquipment row
EquipmentRow(item, equipped, quantity) ==
    [equipment |-> item, equipped |-> equipped, quantity |-> quantity]

\* CharacterAbilities row: the six score columns (default 10)
Abilities(str, dex, con) ==
    [strength_score |-> str, dexterity_score |-> dex, constitution_score |-> con,
     intelligence_score |-> 10, wisdom_score |-> 10, charisma_score |-> 10]

\* Character.calculate_proficiency_bonus
ModelProficiencyBonus(level) == 2 + ((level - 1) \div 4)

\* A Character row as created (field defaults), with no owned rows
BaseCharacter ==
    [id |-> 1, character_name |-> "Hero", level |-> 1, alignment |-> "",
     dnd_class |-> NoneVal, species |-> NoneVal, background |-> NoneVal,
     current_hp |-> 0, max_hp |-> 0, armor_class |-> 10, initiative |-> 0,
     proficiency_bonus |-> 2, is_complete |-> FALSE, character_state |-> "draft",
     abilities |-> NoneVal, equipment |-> <<>>, saving_throws |-> {},
     skills |-> {}, feats |-> {}, background_feats |-> {}]

(***************************************************************************)
(* Stat calculator: calculation_service.py                                 *)
(***************************************************************************)
Max(a, b) == IF a >= b THEN a ELSE b
Min(a, b) == IF a <= b THEN a ELSE b

\* a mutant: integer division truncating toward zero
calculate_ability_modifier_trunc(score) ==
    IF score >= 10 THEN (score - 10) \div 2 ELSE 0 - ((10 - score) \div 2)

\* CharacterCalculationService.calculate_ability_modifier
calculate_ability_modifier(score) == (score - 10) \div 2

\* CharacterAbilities.modifier
modifier(score) == (score - 10) \div 2

\* CharacterCalculationService.calculate_proficiency_bonus
calculate_proficiency_bonus(level) == 2 + ((level - 1) \div 4)

\* hasattr(character, 'abilities')
HasAbilities(c) == c.abilities # NoneVal

\* a mutant: the result is not floored at 1
calculate_max_hp_nofloor(c) ==
    IF c.dnd_class = NoneVal \/ ~HasAbilities(c) THEN 0
    ELSE LET con_modifier == calculate_ability_modifier(c.abilities.constitution_score)
             hit_die == c.dnd_class.hit_die
         IN  hit_die + con_modifier
             + (c.level - 1) * ((hit_die \div 2) + 1 + con_modifier)
             + (IF c.species # NoneVal /\ c.species.name = "Dwarf" THEN c.level ELSE 0)

\* a mutant: the toughness species gets 1 hit point, whatever the level
calculate_max_hp_toughness_once(c) ==
    IF c.dnd_class = NoneVal \/ ~HasAbilities(c) THEN 0
    ELSE LET con_modifier == calculate_ability_modifier(c.abilities.constitution_score)
             hit_die == c.dnd_class.hit_die
         IN  Max(1, hit_die + con_modifier
                    + (c.level - 1) * ((hit_die \div 2) + 1 + con_modifier)
                    + (IF c.species # NoneVal /\ c.species.name = "Dwarf" THEN 1 ELSE 0))

\* CharacterCalculationService.calculate_max_hp
calculate_max_hp(c) ==
    IF c.dnd_class = NoneVal \/ ~HasAbilities(c) THEN 0
    ELSE LET con_modifier == calculate_ability_modifier(c.abilities.constitution_score)
             hit_die == c.dnd_class.hit_die
             level == c.level
             species_bonus ==
                 IF c.species # NoneVal /\ c.species.name = "Dwarf" THEN level ELSE 0
             max_hp ==
                 IF level = 1
                 THEN hit_die + con_modifier + species_bonus
                 ELSE LET level_1_hp == hit_die + con_modifier
                          average_hit_die == (hit_die \div 2) + 1
                          additional_levels == level - 1
                      IN  level_1_hp
                          + (additional_levels * (average_hit_die + con_modifier))
                          + species_bonus
         IN  Max(1, max_hp)

\* armor.dex_bonus_limit or 2
DexLimitOrTwo(limit) == IF limit = <<>> \/ limit[1] = 0 THEN 2 ELSE limit[1]

\* CharacterCalculationService.calculate_armor_class
calculate_armor_class(c) ==
    IF ~HasAbilities(c) THEN 10
    ELSE LET dex_modifier == calculate_ability_modifier(c.abilities.dexterity_score)
             IsEquippedArmor(row) == row.equipped /\ row.equipment.armor # NoneVal
             armor_rows == SelectSeq(c.equipment, IsEquippedArmor)
             base_ac ==
                 IF armor_rows = <<>> THEN 10 + dex_modifier
                 ELSE LET armor == armor_rows[1].equipment.armor
                      IN  armor.base_ac
                          + (CASE armor.armor_type = "light" -> dex_modifier
                               [] armor.armor_type = "medium" ->
                                    Min(dex_modifier, DexLimitOrTwo(armor.dex_bonus_limit))
                               [] OTHER -> 0)
             has_shield ==
                 \E i \in 1..Len(c.equipment) :
                     /\ c.equipment[i].equipped
                     /\ IContainsShield(c.equipment[i].equipment.name)
         IN  base_ac + (IF has_shield THEN 2 ELSE 0)

\* CharacterCalculationService.calculate_initiative
calculate_initiative(c) ==
    IF ~HasAbilities(c) THEN 0
    ELSE calculate_ability_modifier(c.abilities.dexterity_score)
         + (IF "Alert" \in c.feats THEN 5 ELSE 0)

\* Skill catalog rows
Athletics == [name |-> "Athletics", associated_ability |-> "STR"]
Stealth == [name |-> "Stealth", associated_ability |-> "DEX"]
SkillCatalog == {Athletics, Stealth}

\* CharacterAbilities.get_modifier_for_ability
get_modifier_for_ability(abilities, ability_name) ==
    CASE ability_name = "STR" -> modifier(abilities.strength_score)
      [] ability_name = "DEX" -> modifier(abilities.dexterity_score)
      [] ability_name = "CON" -> modifier(abilities.constitution_score)
      [] ability_name = "INT" -> modifier(abilities.intelligence_score)
      [] ability_name = "WIS" -> modifier(abilities.wisdom_score)
      [] ability_name = "CHA" -> modifier(abilities.charisma_score)
      [] OTHER -> 0

\* CharacterSkill.bonus
CharacterSkillBonus(c, row) ==
    LET ability_mod == get_modifier_for_ability(c.abilities, row.skill.associated_ability)
        prof_bonus == IF row.proficiency_type # "none" THEN c.proficiency_bonus ELSE 0
    IN  ability_mod + (IF row.proficiency_type = "expertise" THEN prof_bonus * 2
                       ELSE prof_bonus)

\* the modifier of getattr(character.abilities, f"{name.lower()}_score"), or the error raised
ScoreModifierByName(c, name) ==
    LET attr == GetAttr(c.abilities, Lower(name) \o "_score")
    IN  IF attr.kind = "error" THEN attr
        ELSE Value(calculate_ability_modifier(attr.value))

\* CharacterCalculationService.calculate_skill_bonus
calculate_skill_bonus(c, skill_name) ==
    IF ~HasAbilities(c) THEN Value(0)
    ELSE IF \E row \in c.skills : row.skill.name = skill_name
    THEN Value(CharacterSkillBonus(c, CHOOSE row \in c.skills : row.skill.name = skill_name))
    ELSE IF \E sk \in SkillCatalog : sk.name = skill_name
    THEN ScoreModifierByName(c, (CHOOSE sk \in SkillCatalog : sk.name = skill_name).associated_ability)
    ELSE Value(0)

\* CharacterCalculationService.calculate_saving_throw_bonus
calculate_saving_throw_bonus(c, ability_name) ==
    IF ~HasAbilities(c) THEN Value(0)
    ELSE LET ability_modifier == ScoreModifierByName(c, ability_name)
             is_proficient ==
                 \E row \in c.saving_throws :
                     row.ability_name = Upper(ability_name) /\ row.is_proficient
         IN  IF ability_modifier.kind = "error" THEN ability_modifier
             ELSE IF is_proficient
             THEN Value(ability_modifier.value + calculate_proficiency_bonus(c.level))
             ELSE Value(ability_modifier.value)

\* CharacterCalculationService.calculate_attack_bonus
calculate_attack_bonus(c, weapon_name) ==
    IF ~HasAbilities(c) THEN [melee |-> 0, ranged |-> 0]
    ELSE LET str_modifier == calculate_ability_modifier(c.abilities.strength_score)
             dex_modifier == calculate_ability_modifier(c.abilities.dexterity_score)
             proficiency_bonus == calculate_proficiency_bonus(c.level)
             Named(row) == row.equipment.name = weapon_name
             rows == SelectSeq(c.equipment, Named)
         IN  IF rows # <<>> /\ rows[1].equipment.weapon # NoneVal
             THEN LET weapon == rows[1].equipment.weapon
                      weapon_proficiencies ==
                          IF c.dnd_class # NoneVal THEN c.dnd_class.weapon_proficiencies
                          ELSE {}
                      is_proficient ==
                          \/ weapon.weapon_category \in weapon_proficiencies
                          \/ "all" \in weapon_proficiencies
                      prof_bonus == IF is_proficient THEN proficiency_bonus ELSE 0
                  IN  [melee |-> (IF "finesse" \in weapon.properties
                                  THEN Max(str_modifier, dex_modifier)
                                  ELSE str_modifier) + prof_bonus,
                       ranged |-> dex_modifier + prof_bonus
                                  + (IF "Archery" \in c.feats THEN 2 ELSE 0)]
             ELSE [melee |-> str_modifier
                             + (IF c.dnd_class # NoneVal THEN proficiency_bonus ELSE 0),
                   ranged |-> dex_modifier]

\* a mutant: the base 8 is missing from the default
calculate_spell_save_dc_zero(c) ==
    IF c.dnd_class = NoneVal \/ ~HasAbilities(c) THEN Value(0)
    ELSE LET ability_modifier == ScoreModifierByName(c, c.dnd_class.primary_ability)
         IN  IF ability_modifier.kind = "error" THEN ability_modifier
             ELSE Value(calculate_proficiency_bonus(c.level) + ability_modifier.value)

\* CharacterCalculationService.calculate_spell_save_dc
calculate_spell_save_dc(c) ==
    IF c.dnd_class = NoneVal \/ ~HasAbilities(c) THEN Value(8)
    ELSE LET ability_modifier == ScoreModifierByName(c, c.dnd_class.primary_ability)
         IN  IF ability_modifier.kind = "error" THEN ability_modifier
             ELSE Value(8 + calculate_proficiency_bonus(c.level) + ability_modifier.value)

\* CharacterCalculationService.calculate_spell_attack_bonus
calculate_spell_attack_bonus(c) ==
    IF c.dnd_class = NoneVal \/ ~HasAbilities(c) THEN Value(0)
    ELSE LET ability_modifier == ScoreModifierByName(c, c.dnd_class.primary_ability)
         IN  IF ability_modifier.kind = "error" THEN ability_modifier
             ELSE Value(calculate_proficiency_bonus(c.level) + ability_modifier.value)

\* a quotient kept exact: num / den (the calculator only divides multiples of 15 by 3,
\* so the float quotient is this value)
Frac(num, den) == [num |-> num, den |-> den]

\* CharacterCalculationService.calculate_carrying_capacity
calculate_carrying_capacity(c) ==
    IF ~HasAbilities(c)
    THEN [normal |-> 0, push_drag_lift |-> 0, encumbered |-> Frac(0, 1),
          heavily_encumbered |-> Frac(0, 1)]
    ELSE LET normal_capacity == c.abilities.strength_score * 15
         IN  [normal |-> normal_capacity,
              push_drag_lift |-> normal_capacity * 2,
              encumbered |-> Frac(normal_capacity, 3),
              heavily_encumbered |-> Frac(normal_capacity * 2, 3)]

(***************************************************************************)
(* Python floats (IEEE 754 binary64) for the weights the calculator sums:  *)
(* a non-negative value is int + frac / 2^FracBits, the fraction kept as   *)
(* three limbs of LimbBits bits, most significant first; every binary64    *)
(* value from 0.01 up is such a value.  Each operation rounds its exact    *)
(* result to MantissaBits significant bits, ties to even.                  *)
(***************************************************************************)
MantissaBits == 53
LimbBits == 20
FracBits == 3 * LimbBits
Limb == 2 ^ LimbBits

RECURSIVE BitLen(_)
BitLen(n) == IF n = 0 THEN 0 ELSE 1 + BitLen(n \div 2)

ZeroFrac == <<0, 0, 0>>
FloatOfInt(n) == [int |-> n, frac |-> ZeroFrac]

\* fractional bit i, 1 <= i <= FracBits
FracBit(f, i) ==
    (f[((i - 1) \div LimbBits) + 1] \div (2 ^ (LimbBits - 1 - ((i - 1) % LimbBits)))) % 2

\* the position of the first fractional bit set, 0 when none is
LeadingFrac(f) ==
    IF f = ZeroFrac THEN 0
    ELSE CHOOSE i \in 1..FracBits :
             FracBit(f, i) = 1 /\ \A j \in 1..(i - 1) : FracBit(f, j) = 0

\* the number of fractional bits a binary64 of this magnitude keeps
KeptBits(x) ==
    LET k == IF x.int > 0 THEN MantissaBits - BitLen(x.int)
             ELSE IF LeadingFrac(x.frac) = 0 THEN FracBits
             ELSE LeadingFrac(x.frac) + MantissaBits - 1
    IN  IF k > FracBits THEN FracBits ELSE k

\* the value of one unit in fractional bit k inside limb j, 0 when bit k is not in limb j
UnitInLimb(k, j) ==
    IF k > LimbBits * (j - 1) /\ k <= LimbBits * j THEN 2 ^ (LimbBits * j - k) ELSE 0

\* the bits of limb j that lie among the first k fractional bits
KeptLimb(limb, k, j) ==
    IF k >= LimbBits * j THEN limb
    ELSE IF k <= LimbBits * (j - 1) THEN 0
    ELSE (limb \div (2 ^ (LimbBits * j - k))) * (2 ^ (LimbBits * j - k))

\* int + (limbs a3, a2, a1 with carries) as a value
Carried(int, a1, a2, a3) ==
    LET c3 == a3 \div Limb
        c2 == (a2 + c3) \div Limb
        c1 == (a1 + c2) \div Limb
    IN  [int |-> int + c1, frac |-> <<(a1 + c2) % Limb, (a2 + c3) % Limb, a3 % Limb>>]

\* round to nearest, ties to even; sticky tells that the exact value has bits set
\* beyond FracBits
RoundFloat(x, sticky) ==
    LET k == KeptBits(x)
        guard == IF k < FracBits THEN FracBit(x.frac, k + 1) ELSE 0
        rest == sticky \/ \E j \in (k + 2)..FracBits : FracBit(x.frac, j) = 1
        last == IF k = 0 THEN x.int % 2 ELSE FracBit(x.frac, k)
        up == guard = 1 /\ (rest \/ last = 1)
        k1 == KeptLimb(x.frac[1], k, 1)
        k2 == KeptLimb(x.frac[2], k, 2)
        k3 == KeptLimb(x.frac[3], k, 3)
    IN  IF up
        THEN Carried(x.int + (IF k = 0 THEN 1 ELSE 0), k1 + UnitInLimb(k, 1),
                     k2 + UnitInLimb(k, 2), k3 + UnitInLimb(k, 3))
        ELSE [int |-> x.int, frac |-> <<k1, k2, k3>>]

\* float(Decimal) of a weight given in hundredths of a pound: long division by 100,
\* one limb at a time
FloatOfDecimal(hundredths) ==
    LET r0 == hundredths % 100
        r1 == (r0 * Limb) % 100
        r2 == (r1 * Limb) % 100
        r3 == (r2 * Limb) % 100
    IN  RoundFloat([int |-> hundredths \div 100,
                    frac |-> <<(r0 * Limb) \div 100, (r1 * Limb) \div 100,
                               (r2 * Limb) \div 100>>],
                   r3 # 0)

\* x * q exactly, q a non-negative integer
MulExact(x, q) == Carried(q * x.int, q * x.frac[1], q * x.frac[2], q * x.frac[3])

\* float * int
FloatMul(x, q) == RoundFloat(MulExact(x, q), FALSE)

\* float + float
FloatAdd(x, y) ==
    RoundFloat(Carried(x.int + y.int, x.frac[1] + y.frac[1], x.frac[2] + y.frac[2],
                       x.frac[3] + y.frac[3]),
               FALSE)

\* x <= n for an integer n
FloatLeqInt(x, n) == x.int < n \/ (x.int = n /\ x.frac = ZeroFrac)

\* calculate_current_encumbrance: the loop total_weight += float(weight or 0) * quantity
\* over the rows, started from total_weight
RECURSIVE TotalWeight(_, _)
TotalWeight(rows, total_weight) ==
    IF rows = <<>> THEN total_weight
    ELSE TotalWeight(Tail(rows),
                     FloatAdd(total_weight,
                              FloatMul(FloatOfDecimal(Head(rows).equipment.weight),
                                       Head(rows).quantity)))

\* CharacterCalculationService.calculate_current_encumbrance
calculate_current_encumbrance(c) == TotalWeight(c.equipment, FloatOfInt(0))

\* w <= f for a float weight and an exact quotient
LeqFrac(w, f) == FloatLeqInt(MulExact(w, f.den), f.num)

\* CharacterCalculationService.get_encumbrance_status
get_encumbrance_status(c) ==
    LET current_weight == calculate_current_encumbrance(c)
        capacity == calculate_carrying_capacity(c)
    IN  IF LeqFrac(current_weight, capacity.encumbered) THEN "normal"
        ELSE IF LeqFrac(current_weight, capacity.heavily_encumbered) THEN "encumbered"
        ELSE IF FloatLeqInt(current_weight, capacity.normal) THEN "heavily_encumbered"
        ELSE "overloaded"

\* the ability codes calculate_all_stats iterates over, line 373
StatsSaveAbilities == <<"STR", "DEX", "CON", "INT", "WIS", "CHA">>

EmptyDict == [k \in {} |-> 0]

\* CharacterCalculationService.calculate_all_stats
calculate_all_stats(c) ==
    IF c = NoneVal \/ ~HasAbilities(c) THEN Value(EmptyDict)
    ELSE LET dc == calculate_spell_save_dc(c)
             attack == calculate_spell_attack_bonus(c)
             saves == [i \in 1..Len(StatsSaveAbilities) |->
                          calculate_saving_throw_bonus(c, StatsSaveAbilities[i])]
             failed == {i \in 1..Len(StatsSaveAbilities) : saves[i].kind = "error"}
         IN  IF dc.kind = "error" THEN dc
             ELSE IF attack.kind = "error" THEN attack
             ELSE IF failed # {} THEN saves[CHOOSE i \in failed : \A j \in failed : i <= j]
             ELSE Value(
                [ability_modifiers |->
                    [strength |-> calculate_ability_modifier(c.abilities.strength_score),
                     dexterity |-> calculate_ability_modifier(c.abilities.dexterity_score),
                     constitution |-> calculate_ability_modifier(c.abilities.constitution_score),
                     intelligence |-> calculate_ability_modifier(c.abilities.intelligence_score),
                     wisdom |-> calculate_ability_modifier(c.abilities.wisdom_score),
                     charisma |-> calculate_ability_modifier(c.abilities.charisma_score)],
                 proficiency_bonus |-> calculate_proficiency_bonus(c.level),
                 max_hp |-> calculate_max_hp(c),
                 armor_class |-> calculate_armor_class(c),
                 initiative |-> calculate_initiative(c),
                 spell_save_dc |-> dc.value,
                 spell_attack_bonus |-> attack.value,
                 carrying_capacity |-> calculate_carrying_capacity(c),
                 current_encumbrance |-> calculate_current_encumbrance(c),
                 encumbrance_status |-> get_encumbrance_status(c),
                 saving_throws |->
                    [k \in {Lower(StatsSaveAbilities[i]) : i \in 1..Len(StatsSaveAbilities)} |->
                        saves[CHOOSE i \in 1..Len(StatsSaveAbilities) :
                                 Lower(StatsSaveAbilities[i]) = k].value]])

(***************************************************************************)
(* SpecCalc: one stat-calculator query on one character.  The characters   *)
(* are drawn from families that vary the state each calculation reads.     *)
(***************************************************************************)
MaxLevel == 5       \* character levels range over 1..MaxLevel
MaxProf  == 2       \* at most MaxProf saving throws are marked proficient
MaxQuantity == 3    \* quantities of a carried item range over 0..MaxQuantity

\* the score range the abilities serializer accepts (serializers.py line 219)
MinScore == 3
MaxScore == 20

Levels == 1..MaxLevel

AtLevel(c, level) ==
    [c EXCEPT !.level = level, !.proficiency_bonus = ModelProficiencyBonus(level)]

\* class, Constitution, level and species vary: hit points and spell statistics
ConScores == {1, 3, 10, 14}
HpCharacters ==
    {[AtLevel(BaseCharacter, level) EXCEPT !.dnd_class = class, !.species = species,
                                           !.abilities = abilities] :
        level \in Levels,
        class \in DnDClasses \cup {NoneVal},
        species \in SpeciesRows \cup {NoneVal},
        abilities \in {NoneVal} \cup {Abilities(10, 10, con) : con \in ConScores}}

\* Dexterity and the equipped armor vary: at most one body armor row and at most one
\* shield row, in either primary-key order, each equipped or not
DexScores == {8, 10, 16}
RowsOf(items) == {EquipmentRow(item, equipped, 1) : item \in items, equipped \in BOOLEAN}
ArmorLoadouts ==
    {<<>>}
    \cup {<<row>> : row \in RowsOf(ArmorCatalog)}
    \cup {<<body, shield>> : body \in RowsOf(BodyArmors), shield \in RowsOf(Shields)}
    \cup {<<shield, body>> : body \in RowsOf(BodyArmors), shield \in RowsOf(Shields)}
AcCharacters ==
    {[BaseCharacter EXCEPT !.abilities = abilities, !.equipment = equipment] :
        abilities \in {NoneVal} \cup {Abilities(10, dex, 10) : dex \in DexScores},
        equipment \in ArmorLoadouts}

\* the saving-throw rows vary: the proficient abilities, stored alone or with the
\* other abilities' non-proficient rows
SaveRows(proficient, allRows) ==
    {[ability_name |-> a, is_proficient |-> a \in proficient] :
        a \in (IF allRows THEN ABILITY_CHOICES ELSE proficient)}
SavingThrowSets ==
    {SaveRows(proficient, allRows) :
        proficient \in {P \in SUBSET ABILITY_CHOICES : Cardinality(P) <= MaxProf},
        allRows \in BOOLEAN}
SaveCharacters ==
    {[AtLevel(BaseCharacter, level) EXCEPT !.abilities = abilities,
                                           !.saving_throws = saving_throws] :
        level \in Levels,
        abilities \in {Abilities(8, 16, 14), Abilities(15, 11, 3)},
        saving_throws \in SavingThrowSets}

\* class, weapons, skills and feats vary
SkillRowSets ==
    {{}, {[skill |-> Athletics, proficiency_type |-> "proficient"]},
     {[skill |-> Stealth, proficiency_type |-> "expertise"],
      [skill |-> Athletics, proficiency_type |-> "none"]}}
WeaponLoadouts ==
    {<<>>, <<EquipmentRow(Longsword, TRUE, 1)>>,
     <<EquipmentRow(Backpack, FALSE, 2), EquipmentRow(Dagger, TRUE, 1)>>}
GearCharacters ==
    {[AtLevel(BaseCharacter, level) EXCEPT !.dnd_class = class, !.abilities = abilities,
                                           !.equipment = equipment, !.skills = skills,
                                           !.feats = feats] :
        level \in {1, MaxLevel},
        class \in DnDClasses \cup {NoneVal},
        abilities \in {NoneVal, Abilities(16, 14, 10), Abilities(8, 12, 10)},
        equipment \in WeaponLoadouts,
        skills \in SkillRowSets,
        feats \in {{}, {"Alert"}, {"Alert", "Archery"}}}

\* Strength and the carried quantities vary: gear of fractional and of whole weight
CarriedLoadouts ==
    {<<EquipmentRow(Caltrops, FALSE, q1), EquipmentRow(Rations, FALSE, q2),
       EquipmentRow(Backpack, FALSE, q3), EquipmentRow(ChainMail, FALSE, q4)>> :
        q1 \in 0..MaxQuantity, q2 \in 0..MaxQuantity, q3 \in 0..MaxQuantity,
        q4 \in 0..1}
LoadCharacters ==
    {[BaseCharacter EXCEPT !.abilities = abilities, !.equipment = equipment] :
        abilities \in {NoneVal, Abilities(3, 10, 10), Abilities(6, 10, 10)},
        equipment \in CarriedLoadouts}

CalcCharacters ==
    HpCharacters \cup AcCharacters \cup SaveCharacters \cup GearCharacters
    \cup LoadCharacters

NoArgs == [none |-> TRUE]

\* a mutant: a query counts itself in the level of the character
Query_counted(op, args, res) ==
    /\ pc = "idle"
    /\ pc' = "done"
    /\ call' = [op |-> op, args |-> args]
    /\ result' = res
    /\ character' = [character EXCEPT !.level = character.level + 1]
    /\ UNCHANGED draws

\* a query: the operation returns or raises, and writes nothing
Query(op, args, res) ==
    /\ pc = "idle"
    /\ pc' = "done"
    /\ call' = [op |-> op, args |-> args]
    /\ result' = res
    /\ UNCHANGED <<draws, character>>

\* the two ability-modifier implementations applied to one score
AbilityModifier ==
    \E score \in MinScore..MaxScore :
        Query("ability_modifier", [score |-> score],
              Value([service |-> calculate_ability_modifier(score),
                     model |-> modifier(score)]))

CalculateMaxHp == Query("calculate_max_hp", NoArgs, Value(calculate_max_hp(character)))

CalculateArmorClass ==
    Query("calculate_armor_class", NoArgs, Value(calculate_armor_class(character)))

CalculateInitiative ==
    Query("calculate_initiative", NoArgs, Value(calculate_initiative(character)))

SkillNameArgs == {"Athletics", "Stealth", "Flying"}
CalculateSkillBonus ==
    \E skill_name \in SkillNameArgs :
        Query("calculate_skill_bonus", [skill_name |-> skill_name],
              calculate_skill_bonus(character, skill_name))

AbilityNameArgs == ABILITY_CHOICES \cup AbilityFullNames
CalculateSavingThrowBonus ==
    \E ability_name \in AbilityNameArgs :
        Query("calculate_saving_throw_bonus", [ability_name |-> ability_name],
              calculate_saving_throw_bonus(character, ability_name))

WeaponNameArgs == {"Longsword", "Dagger", "Backpack", "Club"}
CalculateAttackBonus ==
    \E weapon_name \in WeaponNameArgs :
        Query("calculate_attack_bonus", [weapon_name |-> weapon_name],
              Value(calculate_attack_bonus(character, weapon_name)))

CalculateSpellSaveDc ==
    Query("calculate_spell_save_dc", NoArgs, calculate_spell_save_dc(character))

CalculateSpellAttackBonus ==
    Query("calculate_spell_attack_bonus", NoArgs, calculate_spell_attack_bonus(character))

CalculateCarryingCapacity ==
    Query("calculate_carrying_capacity", NoArgs,
          Value(calculate_carrying_capacity(character)))

CalculateCurrentEncumbrance ==
    Query("calculate_current_encumbrance", NoArgs,
          Value(calculate_current_encumbrance(character)))

GetEncumbranceStatus ==
    Query("get_encumbrance_status", NoArgs, Value(get_encumbrance_status(character)))

CalculateAllStats ==
    Query("calculate_all_stats", NoArgs, calculate_all_stats(character))

\* calculate_all_stats called a second time, nothing written since the first call
CalculateAllStatsAgain ==
    /\ pc = "done"
    /\ call.op = "calculate_all_stats"
    /\ pc' = "again"
    /\ result' = calculate_all_stats(character)
    /\ UNCHANGED <<call, draws, character>>

InitCalc ==
    /\ pc = "idle"
    /\ call = NoCall
    /\ draws = <<>>
    /\ result = NoResult
    /\ character \in CalcCharacters

NextCalc ==
    \/ AbilityModifier
    \/ CalculateMaxHp
    \/ CalculateArmorClass
    \/ CalculateInitiative
    \/ CalculateSkillBonus
    \/ CalculateSavingThrowBonus
    \/ CalculateAttackBonus
    \/ CalculateSpellSaveDc
    \/ CalculateSpellAttackBonus
    \/ CalculateCarryingCapacity
    \/ CalculateCurrentEncumbrance
    \/ GetEncumbranceStatus
    \/ CalculateAllStats
    \/ CalculateAllStatsAgain

SpecCalc == InitCalc /\ [][NextCalc]_vars

(***************************************************************************)
(* Claims about the dice engine                                            *)
(***************************************************************************)
IsDiceCall == pc = "done" /\ call.op \in {"roll_dice", "roll_ability_score"}

ValidDiceArgs(a) ==
    /\ a.count >= 1
    /\ a.sides >= 1
    /\ a.drop_lowest >= 0
    /\ a.drop_highest >= 0
    /\ a.drop_lowest + a.drop_highest < a.count

\* C1: for every valid multi-die roll, roll_dice returns individual_rolls equal to the
\* N values rolled (each in 1..S, in roll order) and total = M + the sum of
\* sorted(individual_rolls)[DL .. N-DH-1]; 4d6 drop lowest 1 has 4 rolls and a total in 3..18.
C1_RollDiceTotal ==
    (IsDiceCall /\ ValidDiceArgs(call.args)) =>
        /\ result.kind = "value"
        /\ result.value.individual_rolls = draws
        /\ Len(draws) = call.args.count
        /\ \A i \in 1..Len(draws) : draws[i] \in 1..call.args.sides
        /\ result.value.total =
              call.args.modifier
              + SumSeq(SubSeq(SortedAsc(draws), call.args.drop_lowest + 1,
                              call.args.count - call.args.drop_highest))
        /\ (call.op = "roll_ability_score" =>
              /\ Len(result.value.individual_rolls) = 4
              /\ result.value.total \in 3..18)

\* C1 witness: a three-die roll with distinct values in unsorted order, one lowest and one
\* highest die dropped, has returned
C1_Witness ==
    /\ IsDiceCall
    /\ call.args.count = 3
    /\ call.args.drop_lowest = 1
    /\ call.args.drop_highest = 1
    /\ draws = <<3, 1, 2>>
    /\ result.kind = "value"

\* C2: roll_dice raises the invalid-input error, with no die rolled and no result, whenever
\* N < 1, S < 1 or DL + DH >= N; roll_die does whenever sides < 1.
C2_InvalidInputRaises ==
    /\ (IsDiceCall /\ (\/ call.args.count < 1
                       \/ call.args.sides < 1
                       \/ call.args.drop_lowest + call.args.drop_highest >= call.args.count))
          => (result = Raised("ValueError") /\ draws = <<>>)
    /\ (pc = "done" /\ call.op = "roll_die" /\ call.args.sides < 1)
          => (result = Raised("ValueError") /\ draws = <<>>)

\* C2 witness: roll_dice(2, S, drop_lowest=2) was called and raised
C2_Witness ==
    /\ IsDiceCall
    /\ call.args.count = 2
    /\ call.args.sides >= 1
    /\ call.args.drop_lowest = 2
    /\ call.args.drop_highest = 0
    /\ result.kind = "error"

(***************************************************************************)
(* Claims about the stat calculator                                        *)
(***************************************************************************)
Returned(op) == pc = "done" /\ call.op = op

\* the largest integer m with 2 * m <= n
IsFloorOfHalf(m, n) == 2 * m <= n /\ n < 2 * m + 2

\* C3: for every score in 3..20 the ability modifier is floor((score - 10) / 2), rounding
\* toward negative infinity (8 -> -1, 10 -> 0, 11 -> 0, 20 -> 5), and the service's and the
\* model's implementations agree.
C3_AbilityModifierFloor ==
    (Returned("ability_modifier") /\ call.args.score \in 3..20) =>
        /\ IsFloorOfHalf(result.value.service, call.args.score - 10)
        /\ result.value.model = result.value.service
        /\ (call.args.score = 8 => result.value.service = 0 - 1)
        /\ (call.args.score = 10 => result.value.service = 0)
        /\ (call.args.score = 11 => result.value.service = 0)
        /\ (call.args.score = 20 => result.value.service = 5)

\* C3 witness: the modifier of an odd score below 10 was computed
C3_Witness ==
    /\ Returned("ability_modifier")
    /\ call.args.score = 7
    /\ result.value.service = 0 - 2

\* the score column the claims mean by an ability code
ScoreOfCode(abilities, code) ==
    CASE code = "STR" -> abilities.strength_score
      [] code = "DEX" -> abilities.dexterity_score
      [] code = "CON" -> abilities.constitution_score
      [] code = "INT" -> abilities.intelligence_score
      [] code = "WIS" -> abilities.wisdom_score
      [] code = "CHA" -> abilities.charisma_score

FloorModifier(score) == CHOOSE m \in (0 - 10)..10 : IsFloorOfHalf(m, score - 10)

IsToughnessSpecies(c) == c.species # NoneVal /\ c.species.name = "Dwarf"

\* C5: with a class (hit die H), ability scores (CON modifier c), level L >= 1 and a species
\* other than the toughness species, calculate_max_hp returns
\* max(1, H + c + (L-1) * (floor(H/2) + 1 + c)), never below 1 (H = 10, c = +2: 12 at level 1,
\* 44 at level 5); it returns 0 when the class or the ability scores are missing.
C5_MaxHp ==
    Returned("calculate_max_hp") =>
        IF character.dnd_class = NoneVal \/ character.abilities = NoneVal
        THEN result = Value(0)
        ELSE (character.level >= 1 /\ ~IsToughnessSpecies(character)) =>
            LET H == character.dnd_class.hit_die
                c == FloorModifier(character.abilities.constitution_score)
                L == character.level
                hp == H + c + (L - 1) * ((H \div 2) + 1 + c)
            IN  /\ result = Value(IF hp < 1 THEN 1 ELSE hp)
                /\ result.value >= 1
                /\ (H = 10 /\ c = 2 /\ L = 1 => result.value = 12)
                /\ (H = 10 /\ c = 2 /\ L = 5 => result.value = 44)

\* C5 witness: a level-5 d10 character with CON +2 and no toughness species got 44
C5_Witness ==
    /\ Returned("calculate_max_hp")
    /\ character.dnd_class # NoneVal
    /\ character.abilities # NoneVal
    /\ ~IsToughnessSpecies(character)
    /\ character.dnd_class.hit_die = 10
    /\ character.level = 5
    /\ character.abilities.constitution_score = 14
    /\ result = Value(44)

\* a state in which the formula value is below 1 and the result is 1
C5_FloorReached ==
    /\ Returned("calculate_max_hp")
    /\ character.dnd_class # NoneVal
    /\ character.abilities # NoneVal
    /\ ~IsToughnessSpecies(character)
    /\ character.dnd_class.hit_die + FloorModifier(character.abilities.constitution_score)
         + (character.level - 1)
           * ((character.dnd_class.hit_die \div 2) + 1
              + FloorModifier(character.abilities.constitution_score)) < 1
    /\ result = Value(1)

EquippedRows(c) == SelectSeq(c.equipment, LAMBDA row : row.equipped)
IsShieldItem(item) ==
    \/ IContainsShield(item.name)
    \/ (item.armor # NoneVal /\ item.armor.armor_type = "shield")
IsBodyArmorItem(item) ==
    item.armor # NoneVal /\ item.armor.armor_type \in {"light", "medium", "heavy"}
HasShieldEquipped(c) ==
    \E i \in 1..Len(c.equipment) :
        c.equipment[i].equipped /\ IsShieldItem(c.equipment[i].equipment)
EquippedBodyArmors(c) ==
    {c.equipment[i].equipment.armor : i \in
        {j \in 1..Len(c.equipment) :
            c.equipment[j].equipped /\ IsBodyArmorItem(c.equipment[j].equipment)}}

\* the armor class the specification gives a character with no shield
SpecBodyAc(c) ==
    LET d == FloorModifier(c.abilities.dexterity_score)
        worn == EquippedBodyArmors(c)
    IN  IF worn = {} THEN 10 + d
        ELSE LET armor == CHOOSE a \in worn : TRUE
                 limit == IF armor.dex_bonus_limit = <<>> THEN 2
                          ELSE armor.dex_bonus_limit[1]
             IN  CASE armor.armor_type = "light" -> armor.base_ac + d
                   [] armor.armor_type = "medium" -> armor.base_ac + Min(d, limit)
                   [] armor.armor_type = "heavy" -> armor.base_ac

\* C6: with ability scores (DEX modifier d) and no shield, calculate_armor_class returns
\* 10 + d unarmored, base_ac + d for light armor, base_ac + min(d, limit) for medium armor
\* (limit = the configured dex-bonus limit, 2 only when none is configured) and base_ac for
\* heavy armor, for every configured limit including 0.
C6_ArmorClassByType ==
    (Returned("calculate_armor_class") /\ character.abilities # NoneVal
        /\ ~HasShieldEquipped(character))
    => result = Value(SpecBodyAc(character))

\* what C6 says with the medium armors whose configured limit is 0 left out
C6_ExceptZeroLimit ==
    (Returned("calculate_armor_class") /\ character.abilities # NoneVal
        /\ ~HasShieldEquipped(character)
        /\ \A a \in EquippedBodyArmors(character) :
              ~(a.armor_type = "medium" /\ a.dex_bonus_limit = <<0>>))
    => result = Value(SpecBodyAc(character))

\* the same character with every shield it owns taken off
WithoutShield(c) ==
    [c EXCEPT !.equipment =
        [i \in 1..Len(c.equipment) |->
            IF IsShieldItem(c.equipment[i].equipment)
            THEN [c.equipment[i] EXCEPT !.equipped = FALSE]
            ELSE c.equipment[i]]]

\* C7: in every armor situation (unarmored, light, medium, heavy) an equipped shield adds
\* exactly 2 to calculate_armor_class relative to the same character without the shield,
\* also when the shield is an armor record of type 'shield'.
C7_ShieldAddsTwo ==
    (Returned("calculate_armor_class") /\ character.abilities # NoneVal
        /\ HasShieldEquipped(character))
    => result = Value(calculate_armor_class(WithoutShield(character)) + 2)

\* what C7 says for the shields that are not stored as armor records
C7_PlainShieldAddsTwo ==
    (Returned("calculate_armor_class") /\ character.abilities # NoneVal
        /\ HasShieldEquipped(character)
        /\ \A i \in 1..Len(character.equipment) :
              character.equipment[i].equipped =>
                  ~(character.equipment[i].equipment.armor # NoneVal
                    /\ character.equipment[i].equipment.armor.armor_type = "shield"))
    => result = Value(calculate_armor_class(WithoutShield(character)) + 2)

\* C8: for each ability code under which saving-throw rows are stored,
\* calculate_saving_throw_bonus returns the ability modifier plus the proficiency bonus of
\* the level iff a row marks the ability proficient, and the bare modifier otherwise.
C8_SavingThrowBonus ==
    (Returned("calculate_saving_throw_bonus") /\ character.abilities # NoneVal
        /\ call.args.ability_name \in ABILITY_CHOICES)
    => result =
         Value(FloorModifier(ScoreOfCode(character.abilities, call.args.ability_name))
               + (IF \E row \in character.saving_throws :
                        row.ability_name = call.args.ability_name /\ row.is_proficient
                  THEN 2 + ((character.level - 1) \div 4)
                  ELSE 0))

\* the keys of the complete bundle
BundleKeys ==
    {"ability_modifiers", "proficiency_bonus", "max_hp", "armor_class", "initiative",
     "spell_save_dc", "spell_attack_bonus", "carrying_capacity", "current_encumbrance",
     "encumbrance_status", "saving_throws"}

\* C9: for every character with ability scores calculate_all_stats returns a bundle with
\* every statistic and a saving_throws entry per ability; without ability scores it returns
\* the empty structure.
C9_AllStatsReturns ==
    Returned("calculate_all_stats") =>
        /\ result.kind = "value"
        /\ IF character.abilities = NoneVal
           THEN DOMAIN result.value = {}
           ELSE /\ DOMAIN result.value = BundleKeys
                /\ DOMAIN result.value.saving_throws =
                      {"str", "dex", "con", "int", "wis", "cha"}

\* the part of C9 about characters without ability scores
C9_EmptyWithoutAbilities ==
    (Returned("calculate_all_stats") /\ character.abilities = NoneVal)
    => (result.kind = "value" /\ DOMAIN result.value = {})

ZeroCapacity ==
    [normal |-> 0, push_drag_lift |-> 0, encumbered |-> Frac(0, 1),
     heavily_encumbered |-> Frac(0, 1)]

\* C10: missing prerequisite state never makes a calculation fail.  Without ability scores:
\* max HP 0, AC 10, initiative, skill and saving-throw bonuses 0, attack bonus
\* {melee 0, ranged 0}, spell save DC 8, spell attack bonus 0, carrying capacity all zeros,
\* empty bundle.  With ability scores but no class: max HP 0, spell save DC 8, spell attack
\* bonus 0.
C10_MissingStateDefaults ==
    /\ (pc = "done" /\ character.abilities = NoneVal) =>
          /\ result.kind # "error"
          /\ (call.op = "calculate_max_hp" => result = Value(0))
          /\ (call.op = "calculate_armor_class" => result = Value(10))
          /\ (call.op = "calculate_initiative" => result = Value(0))
          /\ (call.op = "calculate_skill_bonus" => result = Value(0))
          /\ (call.op = "calculate_saving_throw_bonus" => result = Value(0))
          /\ (call.op = "calculate_attack_bonus" => result = Value([melee |-> 0, ranged |-> 0]))
          /\ (call.op = "calculate_spell_save_dc" => result = Value(8))
          /\ (call.op = "calculate_spell_attack_bonus" => result = Value(0))
          /\ (call.op = "calculate_carrying_capacity" => result = Value(ZeroCapacity))
          /\ (call.op = "calculate_all_stats" => DOMAIN result.value = {})
    /\ (pc = "done" /\ character.abilities # NoneVal /\ character.dnd_class = NoneVal) =>
          /\ (call.op = "calculate_max_hp" => result = Value(0))
          /\ (call.op = "calculate_spell_save_dc" => result = Value(8))
          /\ (call.op = "calculate_spell_attack_bonus" => result = Value(0))

\* C10 witness: the spell save DC of a character with a class and no ability scores was
\* asked for, and 8 came back
C10_Witness ==
    /\ Returned("calculate_spell_save_dc")
    /\ character.abilities = NoneVal
    /\ character.dnd_class # NoneVal
    /\ result = Value(8)

(***************************************************************************)
(* Character persistence: Character.save and the handlers that write a     *)
(* Character row (serializers.py, viewsets.py, frontend_views.py,          *)
(* models.py).  The variable character holds one stored row and follows    *)
(* it through the handlers; a duplicate answers with the new row and the   *)
(* model goes on with either the original or the copy.                     *)
(***************************************************************************)
MaxChars == 2       \* primary keys handed out
MaxSupplied == 6    \* the proficiency_bonus a request body supplies
LastStep == 6

\* Background rows (import_dnd_data_sample.py)
Acolyte == [name |-> "Acolyte", origin_feat |-> <<>>]

\* reference tables by primary key
ClassTable == <<Fighter, Wizard>>
SpeciesTable == <<Dwarf, Human>>
BackgroundTable == <<Acolyte>>

\* a request value for a primary key: <<>> when missing or null, else the key of the
\* table's first row, or the key past the table's last row, which has no row
IdArgs(table) == {<<>>, <<1>>, <<Len(table) + 1>>}

\* Model.objects.get(id=...) finds a row
Exists(table, idArg) == idArg # <<>> /\ idArg[1] \in DOMAIN table

\* the row a foreign key column points at, None for NULL
RowOf(table, idArg) == IF idArg = <<>> THEN NoneVal ELSE table[idArg[1]]

\* a foreign key column accepts NULL or the key of a row
ForeignKeyOk(table, idArg) == idArg = <<>> \/ Exists(table, idArg)

\* a mutant: save without the recompute
Save_keep(c) == c

\* Character.save: the proficiency bonus is recomputed from the level on every save
Save(c) == [c EXCEPT !.proficiency_bonus = ModelProficiencyBonus(c.level)]

\* Character(...): a new instance with the column defaults, not saved yet
NewCharacter(id, name) ==
    [BaseCharacter EXCEPT !.id = id, !.character_name = name]

\* a handler answers res and leaves row stored
Serve(op, args, res, row) ==
    /\ pc = "serving"
    /\ call' = [op |-> op, args |-> args]
    /\ result' = res
    /\ character' = row
    /\ UNCHANGED <<pc, draws>>

\* names a create request supplies
Names == {"Hero"}

\* CharacterCreateSerializer.create (through CharacterViewSet.perform_create): a draft
\* row, then its CharacterAbilities row with the column defaults
ApiCreate ==
    /\ character = NoCharacter
    /\ \E name \in Names :
           LET row == [Save([NewCharacter(1, name) EXCEPT
                                !.character_state = "draft",
                                !.is_complete = FALSE])
                          EXCEPT !.abilities = Abilities(10, 10, 10)]
           IN Serve("create", [character_name |-> name], Value(row), row)

\* character_create_wizard without a character_id: a row named "New Character" at
\* level 1, no CharacterAbilities row
WizardCreate ==
    /\ character = NoCharacter
    /\ LET row == Save([NewCharacter(1, "New Character") EXCEPT
                            !.level = 1, !.is_complete = FALSE])
       IN Serve("character_create_wizard", NoArgs, Value(row), row)

\* the POST fields each wizard step reads
PostData(step) ==
    [class_id : IF step = 1 THEN IdArgs(ClassTable) ELSE {<<>>},
     species_id : IF step = 2 THEN IdArgs(SpeciesTable) ELSE {<<>>},
     background_id : IF step = 2 THEN IdArgs(BackgroundTable) ELSE {<<>>}]

\* handle_step_submission: step 1 stores a class that exists, step 2 stores the species
\* and background that exist and saves, the other steps store nothing; a step from
\* LastStep on then sets is_complete and saves
handle_step_submission(c, step, post) ==
    LET stepped ==
            IF step = 1
            THEN IF Exists(ClassTable, post.class_id)
                 THEN Save([c EXCEPT !.dnd_class = ClassTable[post.class_id[1]]])
                 ELSE c
            ELSE IF step = 2
            THEN Save([c EXCEPT
                     !.species = IF Exists(SpeciesTable, post.species_id)
                                 THEN SpeciesTable[post.species_id[1]] ELSE @,
                     !.background = IF Exists(BackgroundTable, post.background_id)
                                    THEN BackgroundTable[post.background_id[1]] ELSE @])
            ELSE c
    IN IF step < LastStep THEN stepped ELSE Save([stepped EXCEPT !.is_complete = TRUE])

\* character_create_step, POST
WizardStep ==
    /\ character # NoCharacter
    /\ \E step \in 1..LastStep : \E post \in PostData(step) :
           Serve("character_create_step", [step |-> step, post |-> post],
                 Value("redirect"), handle_step_submission(character, step, post))

\* character_save_draft
SaveDraft ==
    /\ character # NoCharacter
    /\ Serve("character_save_draft", NoArgs, Value("saved"), Save(character))

\* character_duplicate, POST: the whole row is read again and inserted under a new key
\* with is_complete cleared; the CharacterAbilities row is copied, no other owned row
FrontendDuplicate ==
    /\ character # NoCharacter
    /\ character.id < MaxChars
    /\ LET duplicate == Save([character EXCEPT
                                 !.id = character.id + 1,
                                 !.character_name = character.character_name \o " (Copy)",
                                 !.is_complete = FALSE,
                                 !.equipment = <<>>, !.saving_throws = {},
                                 !.skills = {}, !.feats = {}])
       IN \E row \in {character, duplicate} :
              Serve("character_duplicate", NoArgs, Value(duplicate), row)

\* CharacterViewSet.duplicate: a new draft row with the class, background, species,
\* alignment and level of the original; the CharacterAbilities row is copied
ApiDuplicate ==
    /\ character # NoCharacter
    /\ character.id < MaxChars
    /\ LET created ==
               Save([NewCharacter(character.id + 1,
                                  character.character_name \o " (Copy)")
                        EXCEPT !.dnd_class = character.dnd_class,
                               !.background = character.background,
                               !.species = character.species,
                               !.alignment = character.alignment,
                               !.level = character.level,
                               !.character_state = "draft"])
           duplicate == [created EXCEPT !.abilities = character.abilities]
       IN \E row \in {character, duplicate} :
              Serve("duplicate", NoArgs, Value(duplicate), row)

\* CharacterViewSet.finalize
Finalize ==
    /\ character # NoCharacter
    /\ LET row == Save([character EXCEPT !.is_complete = TRUE,
                                         !.character_state = "complete"])
       IN Serve("finalize", NoArgs, Value(row), row)

\* a request key that may be missing: Absent, or Given with its value
Absent == [present |-> FALSE, id |-> <<>>]
Given(idArg) == [present |-> TRUE, id |-> idArg]

\* CharacterViewSet.update_class: dnd_class_id is set when the key is in the request,
\* then save(); a key with no row is refused by the foreign key
UpdateClass ==
    /\ character # NoCharacter
    /\ \E dnd_class \in {Absent} \cup {Given(i) : i \in IdArgs(ClassTable)} :
           IF ~dnd_class.present
           THEN Serve("update_class", [dnd_class |-> dnd_class],
                      Value(Save(character)), Save(character))
           ELSE IF ForeignKeyOk(ClassTable, dnd_class.id)
           THEN LET row == Save([character EXCEPT
                                    !.dnd_class = RowOf(ClassTable, dnd_class.id)])
                IN Serve("update_class", [dnd_class |-> dnd_class], Value(row), row)
           ELSE Serve("update_class", [dnd_class |-> dnd_class],
                      Raised("IntegrityError"), character)

\* CharacterViewSet.update_background: background_id = request.data.get('background')
UpdateBackground ==
    /\ character # NoCharacter
    /\ \E background \in IdArgs(BackgroundTable) :
           IF ForeignKeyOk(BackgroundTable, background)
           THEN LET row == Save([character EXCEPT
                                    !.background = RowOf(BackgroundTable, background)])
                IN Serve("update_background", [background |-> background],
                         Value(row), row)
           ELSE Serve("update_background", [background |-> background],
                      Raised("IntegrityError"), character)

\* CharacterViewSet.update_species: species_id = request.data.get('species')
UpdateSpecies ==
    /\ character # NoCharacter
    /\ \E species \in IdArgs(SpeciesTable) :
           IF ForeignKeyOk(SpeciesTable, species)
           THEN LET row == Save([character EXCEPT
                                    !.species = RowOf(SpeciesTable, species)])
                IN Serve("update_species", [species |-> species], Value(row), row)
           ELSE Serve("update_species", [species |-> species],
                      Raised("IntegrityError"), character)

\* alignment codes a request supplies ('' is the default of request.data.get)
AlignmentArgs == {"", "LG"}

\* CharacterViewSet.update_alignment
UpdateAlignment ==
    /\ character # NoCharacter
    /\ \E alignment \in AlignmentArgs :
           LET row == Save([character EXCEPT !.alignment = alignment])
           IN Serve("update_alignment", [alignment |-> alignment], Value(row), row)

\* CharacterViewSet.update_ability_scores: character.abilities.get_or_create(...) raises
\* before anything is written (no CharacterAbilities row, or a row instance, which has
\* no get_or_create)
UpdateAbilityScores ==
    /\ character # NoCharacter
    /\ Serve("update_ability_scores", NoArgs,
             IF HasAbilities(character) THEN Raised("AttributeError")
             ELSE Raised("RelatedObjectDoesNotExist"),
             character)

CHARACTER_STATE_CHOICES == {"draft", "complete", "archived"}

\* levels a request body supplies: the lowest two a PositiveIntegerField takes and
\* the highest two of the model
LevelArgs == {0, 1, MaxLevel - 1, MaxLevel}

\* a request body for the detail serializer with every field left out
NoPayload ==
    [level |-> <<>>, character_state |-> <<>>, is_complete |-> <<>>,
     dnd_class_id |-> <<>>, species_id |-> <<>>, background_id |-> <<>>,
     proficiency_bonus |-> <<>>]

\* request bodies for the detail serializer: at most one writable field, and possibly
\* a proficiency_bonus (a body with several fields stores what the same fields sent
\* one by one store)
Payloads ==
    LET writable ==
            {NoPayload}
            \cup {[NoPayload EXCEPT !.level = <<v>>] : v \in LevelArgs}
            \cup {[NoPayload EXCEPT !.character_state = <<v>>] :
                      v \in CHARACTER_STATE_CHOICES}
            \cup {[NoPayload EXCEPT !.is_complete = <<v>>] : v \in BOOLEAN}
            \cup {[NoPayload EXCEPT !.dnd_class_id = v] :
                      v \in IdArgs(ClassTable) \ {<<>>}}
            \cup {[NoPayload EXCEPT !.species_id = v] :
                      v \in IdArgs(SpeciesTable) \ {<<>>}}
            \cup {[NoPayload EXCEPT !.background_id = v] :
                      v \in IdArgs(BackgroundTable) \ {<<>>}}
    IN {[p EXCEPT !.proficiency_bonus = b] :
           p \in writable, b \in {<<>>, <<MaxSupplied>>}}

\* CharacterDetailSerializer.Meta.read_only_fields: a read-only field of the body
\* does not reach validated_data
validated_data(p) == [p EXCEPT !.proficiency_bonus = <<>>]

\* CharacterDetailSerializer.update: the foreign keys, then setattr of every remaining
\* validated field, then save()
serializer_update(instance, data) ==
    Save([instance EXCEPT
        !.dnd_class = IF data.dnd_class_id # <<>>
                      THEN RowOf(ClassTable, data.dnd_class_id) ELSE @,
        !.species = IF data.species_id # <<>>
                    THEN RowOf(SpeciesTable, data.species_id) ELSE @,
        !.background = IF data.background_id # <<>>
                       THEN RowOf(BackgroundTable, data.background_id) ELSE @,
        !.level = IF data.level # <<>> THEN data.level[1] ELSE @,
        !.character_state = IF data.character_state # <<>>
                            THEN data.character_state[1] ELSE @,
        !.is_complete = IF data.is_complete # <<>> THEN data.is_complete[1] ELSE @,
        !.proficiency_bonus = IF data.proficiency_bonus # <<>>
                              THEN data.proficiency_bonus[1] ELSE @])

\* PUT/PATCH on a character through CharacterViewSet with CharacterDetailSerializer
SerializerUpdate ==
    /\ character # NoCharacter
    /\ \E p \in Payloads :
           IF /\ ForeignKeyOk(ClassTable, p.dnd_class_id)
              /\ ForeignKeyOk(SpeciesTable, p.species_id)
              /\ ForeignKeyOk(BackgroundTable, p.background_id)
           THEN LET row == serializer_update(character, validated_data(p))
                IN Serve("serializer_update", p, Value(row), row)
           ELSE Serve("serializer_update", p, Raised("IntegrityError"), character)

\* Character.get_calculation_service: CharacterCalculationService(self), a class that
\* takes no constructor argument
get_calculation_service == Raised("TypeError")

\* Character.auto_calculate_stats: the service is built first, so the call raises
\* before a field is assigned
AutoCalculateStats ==
    /\ character # NoCharacter
    /\ Serve("auto_calculate_stats", NoArgs, get_calculation_service, character)

Init ==
    /\ pc = "serving"
    /\ call = NoCall
    /\ draws = <<>>
    /\ result = NoResult
    /\ character = NoCharacter

Next ==
    \/ ApiCreate
    \/ WizardCreate
    \/ WizardStep
    \/ SaveDraft
    \/ FrontendDuplicate
    \/ ApiDuplicate
    \/ Finalize
    \/ UpdateClass
    \/ UpdateBackground
    \/ UpdateSpecies
    \/ UpdateAlignment
    \/ UpdateAbilityScores
    \/ SerializerUpdate
    \/ AutoCalculateStats

Spec == Init /\ [][Next]_vars

(***************************************************************************)
(* Claims about the stored character                                       *)
(***************************************************************************)
IsDuplicateCall == call # NoCall /\ call.op \in {"character_duplicate", "duplicate"}

Derived(row) == row.proficiency_bonus = 2 + ((row.level - 1) \div 4)

\* C4: in every reachable persisted state each stored character has
\* proficiency_bonus = 2 + floor((level - 1) / 4): the row at hand, and the row a
\* duplicate has just inserted; this holds whatever proficiency_bonus a request body
\* supplied, so a supplied bonus that differs from the derived one is never stored.
C4_ProficiencyBonusDerived ==
    /\ character # NoCharacter => Derived(character)
    /\ (IsDuplicateCall /\ result.kind = "value") => Derived(result.value)
    /\ (/\ call # NoCall
        /\ call.op = "serializer_update"
        /\ call.args.proficiency_bonus # <<>>
        /\ call.args.proficiency_bonus[1] # 2 + ((character.level - 1) \div 4))
       => character.proficiency_bonus # call.args.proficiency_bonus[1]

\* a body that sets the highest level and supplies a proficiency_bonus has been stored:
\* the row is at that level with bonus 3
C4_Witness ==
    /\ call # NoCall
    /\ call.op = "serializer_update"
    /\ call.args.level = <<MaxLevel>>
    /\ call.args.proficiency_bonus = <<MaxSupplied>>
    /\ result.kind = "value"
    /\ character.level = MaxLevel
    /\ character.proficiency_bonus = 3

(***************************************************************************)
(* Claims about encumbrance                                                *)
(***************************************************************************)
\* W in hundredths of a pound: the sum of weight x quantity over the character's items
RECURSIVE CarriedHundredths(_)
CarriedHundredths(rows) ==
    IF rows = <<>> THEN 0
    ELSE Head(rows).equipment.weight * Head(rows).quantity
         + CarriedHundredths(Tail(rows))

\* the status the thresholds C/3, 2C/3 and C give, C = 15 x STR score
StatusByThresholds(c) ==
    LET W == CarriedHundredths(c.equipment)
        C == 100 * 15 * c.abilities.strength_score
    IN  IF 3 * W <= C THEN "normal"
        ELSE IF 3 * W <= 2 * C THEN "encumbered"
        ELSE IF W <= C THEN "heavily_encumbered"
        ELSE "overloaded"

\* every item carried in a non-zero quantity weighs a whole number of pounds
WholePounds(c) ==
    \A i \in 1..Len(c.equipment) :
        c.equipment[i].quantity = 0 \/ c.equipment[i].equipment.weight % 100 = 0

\* C11: with C = 15 x STR score and W the sum of weight x quantity over the
\* character's items, get_encumbrance_status returns 'normal' when W <= C/3,
\* 'encumbered' when C/3 < W <= 2C/3, 'heavily_encumbered' when 2C/3 < W <= C and
\* 'overloaded' when W > C.
C11_EncumbranceStatus ==
    (Returned("get_encumbrance_status") /\ HasAbilities(character))
        => result = Value(StatusByThresholds(character))

\* C11, for a character whose items all weigh a whole number of pounds: the status is
\* the one the thresholds give.
C11_WholePoundsStatus ==
    (/\ Returned("get_encumbrance_status")
     /\ HasAbilities(character)
     /\ WholePounds(character))
        => result = Value(StatusByThresholds(character))

\* whole weights exactly at the encumbered threshold (three backpacks, STR 3) are 'normal'
C11_AtThreshold ==
    /\ Returned("get_encumbrance_status")
    /\ HasAbilities(character)
    /\ WholePounds(character)
    /\ 3 * CarriedHundredths(character.equipment)
           = 100 * 15 * character.abilities.strength_score
    /\ result = Value("normal")

(***************************************************************************)
(* Claims about attack and skill bonuses                                   *)
(***************************************************************************)
\* the weapon row the character owns under this name, <<>> when there is none
OwnedWeapon(c, weapon_name) ==
    LET OwnedNamed(row) == row.equipment.name = weapon_name
                           /\ row.equipment.weapon # NoneVal
    IN  SelectSeq(c.equipment, OwnedNamed)

ClassWeaponList(c) ==
    IF c.dnd_class = NoneVal THEN {} ELSE c.dnd_class.weapon_proficiencies

\* the attack bonuses of an owned weapon when P is the proficiency bonus for a weapon
\* whose category or name (if byName) or 'all' is in the class's list, and 0 otherwise
OwnedAttackBonus(c, weapon_name, byName) ==
    LET weapon == OwnedWeapon(c, weapon_name)[1].equipment.weapon
        str == FloorModifier(c.abilities.strength_score)
        dex == FloorModifier(c.abilities.dexterity_score)
        listed == \/ weapon.weapon_category \in ClassWeaponList(c)
                  \/ "all" \in ClassWeaponList(c)
                  \/ (byName /\ weapon_name \in ClassWeaponList(c))
        P == IF listed THEN 2 + ((c.level - 1) \div 4) ELSE 0
    IN  [melee |-> (IF "finesse" \in weapon.properties THEN Max(str, dex) ELSE str) + P,
         ranged |-> dex + P + (IF "Archery" \in c.feats THEN 2 ELSE 0)]

\* the attack bonuses for a weapon the character does not own
UnownedAttackBonus(c) ==
    [melee |-> FloorModifier(c.abilities.strength_score)
               + (IF c.dnd_class # NoneVal THEN 2 + ((c.level - 1) \div 4) ELSE 0),
     ranged |-> FloorModifier(c.abilities.dexterity_score)]

\* C12: for a weapon the character owns, calculate_attack_bonus returns melee = STR
\* modifier (max(STR, DEX) modifier for a finesse weapon) + P and ranged = DEX modifier
\* + P (+2 with the feat 'Archery'), where P is the proficiency bonus when the class's
\* weapon-proficiency list contains the weapon's category, the literal weapon name or
\* 'all', and 0 otherwise; for a weapon the character does not own, melee = STR modifier
\* + proficiency bonus if a class is set and ranged = DEX modifier.
C12_AttackBonus ==
    (Returned("calculate_attack_bonus") /\ HasAbilities(character))
        => result = Value(IF OwnedWeapon(character, call.args.weapon_name) # <<>>
                          THEN OwnedAttackBonus(character, call.args.weapon_name, TRUE)
                          ELSE UnownedAttackBonus(character))

\* C12, with P decided by the weapon's category and 'all' alone: the bonuses are the
\* ones stated.
C12_AttackBonusByCategory ==
    (Returned("calculate_attack_bonus") /\ HasAbilities(character))
        => result = Value(IF OwnedWeapon(character, call.args.weapon_name) # <<>>
                          THEN OwnedAttackBonus(character, call.args.weapon_name, FALSE)
                          ELSE UnownedAttackBonus(character))

\* a Fighter with the feat 'Archery' asked for an owned Longsword
C12_OwnedReached ==
    /\ Returned("calculate_attack_bonus")
    /\ HasAbilities(character)
    /\ character.dnd_class = Fighter
    /\ "Archery" \in character.feats
    /\ OwnedWeapon(character, call.args.weapon_name) # <<>>
    /\ call.args.weapon_name = "Longsword"

\* the character's row for a skill name, as a set (empty when there is none)
SkillRows(c, skill_name) == {row \in c.skills : row.skill.name = skill_name}

CatalogSkills(skill_name) == {sk \in SkillCatalog : sk.name = skill_name}

\* modifier of the governing ability + 0, the proficiency bonus or twice it
RowSkillBonus(c, row) ==
    FloorModifier(ScoreOfCode(c.abilities, row.skill.associated_ability))
    + (CASE row.proficiency_type = "none" -> 0
         [] row.proficiency_type = "proficient" -> c.proficiency_bonus
         [] row.proficiency_type = "expertise" -> 2 * c.proficiency_bonus)

\* C13: for a character with ability scores, calculate_skill_bonus(skill) is the
\* modifier of the skill's governing ability plus 0 (none), the proficiency bonus
\* (proficient) or twice the proficiency bonus (expertise); with no row for a skill of
\* the catalog it is the bare modifier of the governing ability, and for a name not in
\* the catalog the operation returns a value.
C13_SkillBonus ==
    (Returned("calculate_skill_bonus") /\ HasAbilities(character))
        => LET rows == SkillRows(character, call.args.skill_name)
               known == CatalogSkills(call.args.skill_name)
           IN  IF rows # {}
               THEN \E row \in rows : result = Value(RowSkillBonus(character, row))
               ELSE IF known # {}
               THEN \E sk \in known :
                        result = Value(FloorModifier(
                                     ScoreOfCode(character.abilities,
                                                 sk.associated_ability)))
               ELSE result.kind = "value"

\* C13, for a skill the character has a row for and for a name not in the catalog: the
\* bonus is the one stated, and an unknown name yields 0.
C13_SkillBonusWithRow ==
    (Returned("calculate_skill_bonus") /\ HasAbilities(character))
        => LET rows == SkillRows(character, call.args.skill_name)
           IN  IF rows # {}
               THEN \E row \in rows : result = Value(RowSkillBonus(character, row))
               ELSE CatalogSkills(call.args.skill_name) = {} => result = Value(0)

\* the Stealth bonus of a level-MaxLevel character with expertise in Stealth was asked for
C13_ExpertiseReached ==
    /\ Returned("calculate_skill_bonus")
    /\ HasAbilities(character)
    /\ character.level = MaxLevel
    /\ call.args.skill_name = "Stealth"
    /\ \E row \in SkillRows(character, "Stealth") : row.proficiency_type = "expertise"
    /\ result.kind = "value"

(***************************************************************************)
(* Claims about advantage rolls and dice notation                          *)
(***************************************************************************)
\* C14: roll_with_advantage returns result = max(roll1, roll2) + modifier in advantage
\* mode and min(roll1, roll2) + modifier in disadvantage mode, roll1 and roll2 being two
\* separate rolls in 1..sides; in normal mode a single die is rolled, roll2 = roll1 and
\* result = roll1 + modifier; the returned mode is the requested mode.
C14_RollWithAdvantage ==
    (/\ pc = "done"
     /\ call.op = "roll_with_advantage"
     /\ result.kind = "value"
     /\ call.args.advantage_type \in {"advantage", "disadvantage", "normal"})
        => LET r == result.value
               a == call.args
           IN  /\ r.advantage_type = a.advantage_type
               /\ r.roll1 \in 1..a.sides
               /\ r.roll2 \in 1..a.sides
               /\ r.roll1 = draws[1]
               /\ a.advantage_type = "normal"
                      => /\ Len(draws) = 1
                         /\ r.roll2 = r.roll1
                         /\ r.result = r.roll1 + a.modifier
               /\ a.advantage_type # "normal"
                      => /\ Len(draws) = 2
                         /\ r.roll2 = draws[2]
               /\ a.advantage_type = "advantage"
                      => /\ r.result - a.modifier \in {r.roll1, r.roll2}
                         /\ r.result - a.modifier >= r.roll1
                         /\ r.result - a.modifier >= r.roll2
               /\ a.advantage_type = "disadvantage"
                      => /\ r.result - a.modifier \in {r.roll1, r.roll2}
                         /\ r.result - a.modifier <= r.roll1
                         /\ r.result - a.modifier <= r.roll2

\* a disadvantage roll of 3 and 1 with modifier 1 came back as 2
C14_Witness ==
    /\ pc = "done"
    /\ call.op = "roll_with_advantage"
    /\ call.args.advantage_type = "disadvantage"
    /\ call.args.modifier = 1
    /\ draws = <<3, 1>>
    /\ result.kind = "value"
    /\ result.value.result = 2

(***************************************************************************)
(* C15: the notation parser                                                *)
(***************************************************************************)

AllDigits(s) == \A k \in 1..Len(s) : s[k] \in {"0", "1", "2", "3", "4", "5", "6", "7", "8", "9"}

\* the ways n reads as [count]d<sides>[+/-modifier]: <<i, j>> with the "d" at i + 1 and
\* the sides ending at j
NotationForms(n) ==
    {f \in (0..Len(n)) \X (0..Len(n)) :
        /\ f[1] + 2 <= f[2]
        /\ n[f[1] + 1] = "d"
        /\ AllDigits(SubSeq(n, 1, f[1]))
        /\ AllDigits(SubSeq(n, f[1] + 2, f[2]))
        /\ \/ f[2] = Len(n)
           \/ /\ f[2] + 2 <= Len(n)
              /\ n[f[2] + 1] \in {"+", "-"}
              /\ AllDigits(SubSeq(n, f[2] + 2, Len(n)))}

FormCount(n, f) == IF f[1] = 0 THEN 1 ELSE IntOfDigits(SubSeq(n, 1, f[1]))
FormSides(n, f) == IntOfDigits(SubSeq(n, f[1] + 2, f[2]))
FormModifier(n, f) ==
    IF f[2] = Len(n) THEN 0
    ELSE IF n[f[2] + 1] = "-" THEN 0 - IntOfDigits(SubSeq(n, f[2] + 2, Len(n)))
    ELSE IntOfDigits(SubSeq(n, f[2] + 2, Len(n)))

\* the result is a roll of count dice of sides sides, none dropped
ParsedRoll(count, sides, added) ==
    /\ result.kind = "value"
    /\ result.value.dice_count = count
    /\ result.value.dice_size = sides
    /\ result.value.modifier = added
    /\ Len(result.value.individual_rolls) = count
    /\ result.value.total = SumSeq(result.value.individual_rolls) + added
    /\ result.value.total >= count + added
    /\ result.value.total <= count * sides + added

\* C15 as stated: parse_dice_notation accepts exactly the strings that, lower-cased and
\* with spaces removed, have the form [count]d<sides>[+/-modifier] (count defaults to 1,
\* modifier to 0), raises ValueError on any other string, and for an accepted string
\* returns a roll with the parsed dice_count, dice_size and modifier, no dice dropped,
\* and total in [count+modifier, count*sides+modifier].
C15_ParseDiceNotation ==
    (pc = "done" /\ call.op = "parse_dice_notation")
        => LET n == RemoveSpaces(LowerChars(call.args.notation))
           IN  IF NotationForms(n) = {}
               THEN result = Raised("ValueError")
               ELSE \E f \in NotationForms(n) :
                        ParsedRoll(FormCount(n, f), FormSides(n, f), FormModifier(n, f))

\* C15 amended: parse_dice_notation reads the string with surrounding whitespace
\* stripped, lower-cased and spaces removed; it raises ValueError unless that has the
\* form [count]d<sides>[+/-modifier] with count (1 when absent) and sides both at
\* least 1, and then returns a roll with the parsed dice_count, dice_size and modifier
\* (0 when absent), no dice dropped, and total in [count+modifier, count*sides+modifier].
C15_ParseValidNotation ==
    (pc = "done" /\ call.op = "parse_dice_notation")
        => LET n == RemoveSpaces(LowerChars(Strip(call.args.notation)))
           IN  IF \E f \in NotationForms(n) : FormCount(n, f) >= 1 /\ FormSides(n, f) >= 1
               THEN \E f \in NotationForms(n) :
                        ParsedRoll(FormCount(n, f), FormSides(n, f), FormModifier(n, f))
               ELSE result = Raised("ValueError")

\* " D2-1" was parsed as one die of two sides with modifier -1 and came back as 1
C15_Witness ==
    /\ pc = "done"
    /\ call.op = "parse_dice_notation"
    /\ call.args.notation = <<" ", "D", "2", "-", "1">>
    /\ draws = <<2>>
    /\ result.kind = "value"
    /\ result.value.dice_count = 1
    /\ result.value.total = 1

(***************************************************************************)
(* C16: auto_calculate_stats                                               *)
(***************************************************************************)

\* C16: auto_calculate_stats sets the stored max_hp, armor_class and initiative of the
\* character to the values the Stat Calculator computes for its current state and
\* leaves every other stored field unchanged; proficiency_bonus is not recomputed.
C16_AutoCalculateStats ==
    [][(call'.op = "auto_calculate_stats" /\ character # NoCharacter)
           => character' = [character EXCEPT
                               !.max_hp = calculate_max_hp(character),
                               !.armor_class = calculate_armor_class(character),
                               !.initiative = calculate_initiative(character)]]_vars

(***************************************************************************)
(* C17: the calculator writes nothing                                      *)
(***************************************************************************)

MaxChanged == 2     \* entries of a score dict that differ from a base assignment

\* the keys of a scores dict, in insertion order
AbilityOrder ==
    <<"strength", "dexterity", "constitution", "intelligence", "wisdom", "charisma">>
AbilityNames == {AbilityOrder[i] : i \in 1..Len(AbilityOrder)}

\* scores a caller supplies: around the point-buy range 8..15 and the range 3..20
ScoreArgs == (7..16) \cup {2, 3, 20, 21}

ScoresOf(s) == [a \in AbilityNames |-> s[CHOOSE i \in 1..Len(AbilityOrder) : AbilityOrder[i] = a]]

\* the standard array and the dearest point buy, as assigned in key order
BaseScores == {ScoresOf(<<15, 14, 13, 12, 10, 8>>), ScoresOf(<<15, 15, 15, 8, 8, 8>>)}

\* the entries of a base assignment a caller replaces: at most MaxChanged
ChangedArgs == {S \in SUBSET AbilityNames : Cardinality(S) <= MaxChanged}

\* a base assignment with the entries of v replaced
Replaced(base, v) == [a \in AbilityNames |-> IF a \in DOMAIN v THEN v[a] ELSE base[a]]

MethodArgs == {"point_buy", "standard_array", "roll"}

\* a message with the value formatted into it
Message(text, value) == [text |-> text, value |-> value]

\* scores.values(), in insertion order
ScoreValues(scores) == [i \in 1..Len(AbilityOrder) |-> scores[AbilityOrder[i]]]

\* a mutant: 14 costs 6 points
cost_table_linear == [s \in 8..15 |-> IF s = 15 THEN 9 ELSE s - 8]

\* _validate_point_buy_cost: cost_table
cost_table == (8 :> 0) @@ (9 :> 1) @@ (10 :> 2) @@ (11 :> 3) @@ (12 :> 4) @@ (13 :> 5)
              @@ (14 :> 7) @@ (15 :> 9)

PointBuyMax == 27

\* _validate_point_buy_cost: the loop over scores.values(), total_cost so far
RECURSIVE PointBuyCost(_, _)
PointBuyCost(values, total_cost) ==
    IF values = <<>>
    THEN IF total_cost > PointBuyMax
         THEN <<Message("Point buy total exceeds maximum of 27 points", total_cost)>>
         ELSE <<>>
    ELSE IF Head(values) \in DOMAIN cost_table
         THEN PointBuyCost(Tail(values), total_cost + cost_table[Head(values)])
         ELSE <<Message("Invalid score for point buy", Head(values))>>

\* CharacterValidationService._validate_point_buy_cost
validate_point_buy_cost(scores) == PointBuyCost(ScoreValues(scores), 0)

\* CharacterValidationService._validate_standard_array
validate_standard_array(scores) ==
    LET standard_scores == <<15, 14, 13, 12, 10, 8>>
        used_scores == SortedDesc(ScoreValues(scores))
    IN  IF used_scores # standard_scores
        THEN <<Message("Standard array must use exactly", used_scores)>>
        ELSE <<>>

\* validate_ability_scores: the range check of one score
ability_errors(score, method) ==
    IF method = "point_buy"
    THEN IF score < 8 \/ score > 15
         THEN <<Message("must be between 8-15 for point buy", score)>>
         ELSE <<>>
    ELSE IF score < 3 \/ score > 20
         THEN <<Message("must be between 3-20", score)>>
         ELSE <<>>

\* CharacterValidationService.validate_ability_scores: the errors dict, a function from
\* the keys that have messages to their lists
validate_ability_scores(scores, method) ==
    LET point_buy_errors == IF method = "point_buy"
                            THEN validate_point_buy_cost(scores) ELSE <<>>
        array_errors == IF method = "standard_array"
                        THEN validate_standard_array(scores) ELSE <<>>
        keys == {a \in AbilityNames : ability_errors(scores[a], method) # <<>>}
                \cup (IF point_buy_errors # <<>> THEN {"point_buy"} ELSE {})
                \cup (IF array_errors # <<>> THEN {"standard_array"} ELSE {})
    IN  [k \in keys |->
            IF k = "point_buy" THEN point_buy_errors
            ELSE IF k = "standard_array" THEN array_errors
            ELSE ability_errors(scores[k], method)]

\* Background row with an origin feat; origin_feat is <<>> when null
Soldier == [name |-> "Soldier", origin_feat |-> <<"Alert">>]

\* Feat rows by name: prerequisites is the JSON dict (empty by default), in the shape
\* _validate_feat_prerequisites reads; abilities is the dict's items in order
FeatOrder == <<"Alert", "Grappler", "Ability Score Improvement", "Fighting Initiate">>
FeatPrerequisites(name) ==
    CASE name = "Grappler" -> [abilities |-> << <<"strength", 13>> >>]
      [] name = "Ability Score Improvement" -> [level |-> 4]
      [] name = "Fighting Initiate" -> [classes |-> {"Fighter"}]
      [] OTHER -> EmptyDict

\* character.feats.all(): the names of the character's CharacterFeat rows, in key order
FeatRows(c) == SelectSeq(FeatOrder, LAMBDA name : name \in c.feats)

\* dict.update: the entries of new replace those of old
Update(old, new) == new @@ old

\* not character_name or character_name.strip() == '', on the names the model uses
IsBlankName(name) == name \in {"", " "}

\* CharacterValidationService.validate_character_skills: DnDClass has
\* skill_proficiency_count and skill_proficiency_choices but no skill_choices, and
\* CharacterSkill has no source column to filter on
validate_character_skills(c) ==
    IF c.dnd_class = NoneVal
    THEN Value([class |-> <<Message("Character must have a class selected", NoneVal)>>])
    ELSE LET class_skill_count == GetAttr(c.dnd_class, "skill_choices")
         IN  IF class_skill_count.kind = "error" THEN class_skill_count
             ELSE Raised("FieldError")

\* CharacterValidationService.validate_character_spells: DnDClass has no spellcaster
\* field and no get_spell_progression method
validate_character_spells(c) ==
    IF c.dnd_class = NoneVal THEN Value(EmptyDict)
    ELSE LET spellcaster == GetAttr(c.dnd_class, "spellcaster")
         IN  IF spellcaster.kind = "error" THEN spellcaster
             ELSE IF ~spellcaster.value THEN Value(EmptyDict)
             ELSE Raised("AttributeError")

\* _validate_feat_prerequisites: the loop over prerequisites['abilities'].items()
RECURSIVE AbilityPrerequisites(_, _, _)
AbilityPrerequisites(c, items, errors) ==
    IF items = <<>> THEN Value(errors)
    ELSE LET ability == Head(items)[1]
             min_score == Head(items)[2]
             actual_score == GetAttr(c.abilities, Lower(ability) \o "_score")
         IN  IF actual_score.kind = "error" THEN actual_score
             ELSE AbilityPrerequisites(c, Tail(items),
                      IF actual_score.value < min_score
                      THEN Append(errors, Message("Requires ability", <<ability, min_score>>))
                      ELSE errors)

\* CharacterValidationService._validate_feat_prerequisites
validate_feat_prerequisites(c, prerequisites) ==
    IF ~HasAbilities(c) THEN Value(<<Message("Character abilities not set", NoneVal)>>)
    ELSE LET ability_errors_ == IF "abilities" \in DOMAIN prerequisites
                                THEN AbilityPrerequisites(c, prerequisites.abilities, <<>>)
                                ELSE Value(<<>>)
             level_errors == IF "level" \in DOMAIN prerequisites
                                /\ c.level < prerequisites.level
                             THEN <<Message("Requires level", prerequisites.level)>>
                             ELSE <<>>
         IN  IF ability_errors_.kind = "error" THEN ability_errors_
             ELSE IF "classes" \in DOMAIN prerequisites
             THEN IF c.dnd_class = NoneVal THEN Raised("AttributeError")
                  ELSE Value(ability_errors_.value \o level_errors
                             \o (IF c.dnd_class.name \notin prerequisites.classes
                                 THEN <<Message("Requires one of", prerequisites.classes)>>
                                 ELSE <<>>))
             ELSE Value(ability_errors_.value \o level_errors)

\* CharacterValidationService._get_asi_levels_for_class
get_asi_levels_for_class(dnd_class) ==
    IF dnd_class = NoneVal THEN <<>>
    ELSE IF dnd_class.name = "Fighter" THEN <<4, 6, 8, 12, 14, 16, 19>>
    ELSE IF dnd_class.name = "Rogue" THEN <<4, 8, 10, 12, 16, 19>>
    ELSE <<4, 8, 12, 16, 19>>

\* sum(1 for level in asi_levels if level <= character.level)
AvailableAsi(c) ==
    LET asi_levels == get_asi_levels_for_class(c.dnd_class)
    IN  Cardinality({i \in 1..Len(asi_levels) : asi_levels[i] <= c.level})

\* validate_character_feats: the loop over character.feats.all(), errors so far
RECURSIVE FeatPrerequisiteErrors(_, _, _)
FeatPrerequisiteErrors(c, rows, errors) ==
    IF rows = <<>> THEN Value(errors)
    ELSE LET prerequisites == FeatPrerequisites(Head(rows))
         IN  IF prerequisites = EmptyDict
             THEN FeatPrerequisiteErrors(c, Tail(rows), errors)
             ELSE LET prereq_errors == validate_feat_prerequisites(c, prerequisites)
                  IN  IF prereq_errors.kind = "error" THEN prereq_errors
                      ELSE FeatPrerequisiteErrors(c, Tail(rows),
                                                  errors \o prereq_errors.value)

\* CharacterValidationService.validate_character_feats
validate_character_feats(c) ==
    LET prerequisites == FeatPrerequisiteErrors(c, FeatRows(c), <<>>)
        asi_feats == Cardinality(c.feats \ c.background_feats)
    IN  IF prerequisites.kind = "error" THEN prerequisites
        ELSE Value(
            (IF asi_feats > AvailableAsi(c)
             THEN [too_many_feats |-> <<Message("More feats than ASI opportunities",
                                                <<asi_feats, AvailableAsi(c)>>)>>]
             ELSE EmptyDict)
            @@ (IF prerequisites.value # <<>>
                THEN [feat_prerequisites |-> prerequisites.value]
                ELSE EmptyDict)
            @@ (IF /\ c.background # NoneVal
                   /\ c.background.origin_feat # <<>>
                   /\ c.background.origin_feat[1] \notin c.background_feats
                THEN [origin_feat |-> <<Message("Must select origin feat",
                                                c.background.origin_feat[1])>>]
                ELSE EmptyDict))

\* a mutant: the species is not required
RequiredFieldErrors_nospecies(c) ==
    (IF IsBlankName(c.character_name)
     THEN [name |-> <<Message("Character name is required", NoneVal)>>] ELSE EmptyDict)
    @@ (IF c.dnd_class = NoneVal
        THEN [class |-> <<Message("Character class is required", NoneVal)>>]
        ELSE EmptyDict)
    @@ (IF c.background = NoneVal
        THEN [background |-> <<Message("Character background is required", NoneVal)>>]
        ELSE EmptyDict)
    @@ (IF ~HasAbilities(c)
        THEN [abilities |-> <<Message("Character ability scores are required", NoneVal)>>]
        ELSE EmptyDict)

\* validate_complete_character: the basic checks, lines 419-432
RequiredFieldErrors(c) ==
    (IF IsBlankName(c.character_name)
     THEN [name |-> <<Message("Character name is required", NoneVal)>>] ELSE EmptyDict)
    @@ (IF c.dnd_class = NoneVal
        THEN [class |-> <<Message("Character class is required", NoneVal)>>]
        ELSE EmptyDict)
    @@ (IF c.species = NoneVal
        THEN [species |-> <<Message("Character species is required", NoneVal)>>]
        ELSE EmptyDict)
    @@ (IF c.background = NoneVal
        THEN [background |-> <<Message("Character background is required", NoneVal)>>]
        ELSE EmptyDict)
    @@ (IF ~HasAbilities(c)
        THEN [abilities |-> <<Message("Character ability scores are required", NoneVal)>>]
        ELSE EmptyDict)

\* validate_complete_character: ability_scores, lines 436-443
AbilityScoresOf(c) ==
    [a \in AbilityNames |-> c.abilities[a \o "_score"]]

\* CharacterValidationService.validate_complete_character. The equipment validation is
\* reached only by a character without a class (for any other the skill validation has
\* raised), and for that one it returns {} at once, line 162.
validate_complete_character(c) ==
    LET ability_errors_ == IF HasAbilities(c)
                           THEN validate_ability_scores(AbilityScoresOf(c), "roll")
                           ELSE EmptyDict
        skill_errors == validate_character_skills(c)
        equipment_errors == EmptyDict
        spell_errors == validate_character_spells(c)
        feat_errors == validate_character_feats(c)
    IN  IF skill_errors.kind = "error" THEN skill_errors
        ELSE IF spell_errors.kind = "error" THEN spell_errors
        ELSE IF feat_errors.kind = "error" THEN feat_errors
        ELSE Value(Update(Update(Update(Update(Update(RequiredFieldErrors(c),
                 ability_errors_), skill_errors.value), equipment_errors),
                 spell_errors.value), feat_errors.value))

\* CharacterValidationService.get_character_warnings
get_character_warnings(c) ==
    IF c.dnd_class = NoneVal \/ ~HasAbilities(c) THEN Value(EmptyDict)
    ELSE LET primary_ability == c.dnd_class.primary_ability
             primary_score == GetAttr(c.abilities, Lower(primary_ability) \o "_score")
             con_score == c.abilities.constitution_score
             used_asi == Cardinality(c.feats \ c.background_feats)
         IN  IF primary_score.kind = "error" THEN primary_score
             ELSE Value(
                (IF primary_score.value < 14
                 THEN [suboptimal_primary |->
                          <<Message("relies on", <<primary_ability, primary_score.value>>)>>]
                 ELSE EmptyDict)
                @@ (IF con_score < 12
                    THEN [low_constitution |-> <<Message("is quite low", con_score)>>]
                    ELSE EmptyDict)
                @@ (IF c.level >= 4 /\ used_asi = 0 /\ AvailableAsi(c) > 0
                    THEN [no_feats |-> <<Message("Consider taking feats", NoneVal)>>]
                    ELSE EmptyDict))

\* the characters handed to the validator: any of the name, class, species, background
\* and abilities missing, with equipment and feats owned
OwnedFeats ==
    {[feats |-> feats, background_feats |-> from_background] :
        feats \in SUBSET {"Alert", "Grappler", "Fighting Initiate"},
        from_background \in {{}, {"Alert"}}}
ValCharacters ==
    {[AtLevel(BaseCharacter, level) EXCEPT
          !.character_name = name, !.dnd_class = class, !.species = species,
          !.background = background, !.abilities = abilities, !.equipment = equipment,
          !.feats = owned.feats \cup owned.background_feats,
          !.background_feats = owned.background_feats] :
        level \in {1, MaxLevel - 1},
        name \in {"Hero", "", " "},
        class \in DnDClasses \cup {NoneVal},
        species \in {Human, NoneVal},
        background \in {Acolyte, Soldier, NoneVal},
        abilities \in {NoneVal, Abilities(10, 10, 10), Abilities(16, 14, 14)},
        equipment \in {<<>>, <<EquipmentRow(ChainMail, TRUE, 1)>>},
        owned \in OwnedFeats}

\* str.lower() on the names of the catalog's weapons and of the proficiency lists
LowerName(s) ==
    CASE s = "Dagger" -> "dagger" [] s = "Longsword" -> "longsword"
      [] s = "Greatsword" -> "greatsword" [] OTHER -> s

\* the database the project is set up with: PostgreSQL when DB_NAME is set, else SQLite
Backends == {"postgresql", "sqlite3"}

\* CharacterValidationService.validate_character_equipment. The two-handed filter is a
\* JSONField contains lookup, which SQLite does not support: the query raises when it
\* is run, and it is run only when a shield is equipped.
validate_character_equipment(c, backend) ==
    IF c.dnd_class = NoneVal THEN Value(EmptyDict)
    ELSE LET equipped_armor ==
                 SelectSeq(c.equipment,
                           LAMBDA row : row.equipped /\ row.equipment.armor # NoneVal)
             equipped_weapons ==
                 SelectSeq(c.equipment,
                           LAMBDA row : row.equipped /\ row.equipment.weapon # NoneVal)
             class_armor_profs == c.dnd_class.armor_proficiencies
             class_weapon_profs == c.dnd_class.weapon_proficiencies
             NotArmorProficient(row) ==
                 /\ row.equipment.armor.armor_type \notin class_armor_profs
                 /\ "all" \notin class_armor_profs
             is_proficient(row) ==
                 \/ row.equipment.weapon.weapon_category \in class_weapon_profs
                 \/ "all" \in class_weapon_profs
                 \/ LowerName(row.equipment.name)
                        \in {LowerName(prof) : prof \in class_weapon_profs}
             NotWeaponProficient(row) == ~is_proficient(row)
             armor_messages ==
                 [i \in 1..Len(SelectSeq(equipped_armor, NotArmorProficient)) |->
                     Message("Not proficient with armor",
                             SelectSeq(equipped_armor, NotArmorProficient)[i].equipment.name)]
             weapon_messages ==
                 [i \in 1..Len(SelectSeq(equipped_weapons, NotWeaponProficient)) |->
                     Message("Not proficient with weapon",
                             SelectSeq(equipped_weapons, NotWeaponProficient)[i].equipment.name)]
             has_shield ==
                 \E i \in 1..Len(c.equipment) :
                     /\ c.equipment[i].equipped
                     /\ IContainsShield(c.equipment[i].equipment.name)
             two_handed_weapons ==
                 SelectSeq(equipped_weapons,
                           LAMBDA row : "two-handed" \in row.equipment.weapon.properties)
         IN  IF has_shield /\ backend = "sqlite3" THEN Raised("NotSupportedError")
             ELSE Value(
                (IF get_encumbrance_status(c) = "overloaded"
                 THEN [encumbrance |-> <<Message("Character is overloaded", NoneVal)>>]
                 ELSE EmptyDict)
                @@ (IF has_shield /\ two_handed_weapons # <<>>
                    THEN [shield_conflict |->
                             <<Message("Cannot use shield with two-handed weapon", NoneVal)>>]
                    ELSE EmptyDict)
                @@ (IF Len(equipped_armor) > 1
                    THEN [multiple_armor |->
                             <<Message("Cannot wear multiple pieces of armor", NoneVal)>>]
                    ELSE EmptyDict)
                @@ (IF Len(weapon_messages) > 0
                    THEN [weapon_proficiency |-> weapon_messages] ELSE EmptyDict)
                @@ (IF Len(armor_messages) > 0
                    THEN [armor_proficiency |-> armor_messages] ELSE EmptyDict))

\* the items of a loadout, in key order
LoadoutOrder == <<LeatherArmor, ChainMail, ShieldArmor, WoodenShield, Greatsword, Dagger>>

\* the rows of a loadout from item i on: each item is absent, carried or equipped
RECURSIVE LoadoutFrom(_, _)
LoadoutFrom(owned, i) ==
    IF i > Len(LoadoutOrder) THEN <<>>
    ELSE (IF owned[i] = "absent" THEN <<>>
          ELSE <<EquipmentRow(LoadoutOrder[i], owned[i] = "equipped", 1)>>)
         \o LoadoutFrom(owned, i + 1)

\* the characters whose equipment is validated: armor, shields and weapons owned and
\* equipped in every combination, by a strong, a weak and an unset character
WornCharacters ==
    {[BaseCharacter EXCEPT !.dnd_class = class, !.abilities = abilities,
                           !.equipment = LoadoutFrom(owned, 1)] :
        class \in DnDClasses \cup {NoneVal},
        abilities \in {NoneVal, Abilities(3, 10, 10), Abilities(16, 10, 10)},
        owned \in [1..Len(LoadoutOrder) -> {"absent", "carried", "equipped"}]}

ValidateCharacterEquipment ==
    /\ character # NoCharacter
    /\ \E backend \in Backends :
           Query("validate_character_equipment", [backend |-> backend],
                 validate_character_equipment(character, backend))

ValidateCompleteCharacter ==
    /\ character # NoCharacter
    /\ Query("validate_complete_character", NoArgs, validate_complete_character(character))

ValidateCharacterFeats ==
    /\ character # NoCharacter
    /\ Query("validate_character_feats", NoArgs, validate_character_feats(character))

GetCharacterWarnings ==
    /\ character # NoCharacter
    /\ Query("get_character_warnings", NoArgs, get_character_warnings(character))

ValidateAbilityScores ==
    /\ pc = "idle"
    /\ character = NoCharacter
    /\ \E base \in BaseScores, changed \in ChangedArgs, method \in MethodArgs :
        \E v \in [changed -> ScoreArgs] :
            LET scores == Replaced(base, v)
            IN  /\ call' = [op |-> "validate_ability_scores",
                            args |-> [scores |-> scores, method |-> method]]
                /\ result' = Value(validate_ability_scores(scores, method))
    /\ pc' = "done"
    /\ UNCHANGED <<draws, character>>

InitValidate ==
    /\ pc = "idle"
    /\ call = NoCall
    /\ draws = <<>>
    /\ result = NoResult
    /\ character \in {NoCharacter} \cup ValCharacters \cup WornCharacters

NextValidate ==
    \/ ValidateAbilityScores
    \/ ValidateCompleteCharacter
    \/ ValidateCharacterFeats
    \/ ValidateCharacterEquipment
    \/ GetCharacterWarnings

SpecValidate == InitValidate /\ [][NextValidate]_vars

(***************************************************************************)
(* C18: ability score generation methods                                   *)
(***************************************************************************)

\* the points a score costs: 8:0 9:1 10:2 11:3 12:4 13:5 14:7 15:9
PointCost(score) ==
    CASE score = 8 -> 0 [] score = 9 -> 1 [] score = 10 -> 2 [] score = 11 -> 3
      [] score = 12 -> 4 [] score = 13 -> 5 [] score = 14 -> 7 [] score = 15 -> 9

\* how many abilities have the score
Uses(scores, score) == Cardinality({a \in DOMAIN scores : scores[a] = score})

TotalCost(scores) ==
    LET RECURSIVE Add(_)
        Add(S) == IF S = {} THEN 0
                  ELSE LET a == CHOOSE x \in S : TRUE
                       IN  PointCost(scores[a]) + Add(S \ {a})
    IN  Add(DOMAIN scores)

\* C18: in point-buy mode validate_ability_scores returns no violation iff every score
\* lies in 8..15 and the total cost is at most 27; in standard-array mode it returns no
\* violation iff the multiset of scores is {15, 14, 13, 12, 10, 8}.
C18_AbilityScoreMethods ==
    (pc = "done" /\ call.op = "validate_ability_scores")
        => LET scores == call.args.scores
               valid == DOMAIN result.value = {}
           IN  /\ call.args.method = "point_buy"
                    => (valid <=> /\ \A a \in DOMAIN scores : scores[a] \in 8..15
                                  /\ TotalCost(scores) <= 27)
               /\ call.args.method = "standard_array"
                    => (valid <=> /\ Cardinality(DOMAIN scores) = 6
                                  /\ \A s \in {15, 14, 13, 12, 10, 8} : Uses(scores, s) = 1)

\* [15,15,15,8,8,8] was accepted as a point buy
C18_Witness ==
    /\ pc = "done"
    /\ call.op = "validate_ability_scores"
    /\ call.args.method = "point_buy"
    /\ call.args.scores = ScoresOf(<<15, 15, 15, 8, 8, 8>>)
    /\ DOMAIN result.value = {}

\* [15,15,15,15,8,8] was rejected as a point buy
C18_Rejected ==
    /\ pc = "done"
    /\ call.op = "validate_ability_scores"
    /\ call.args.method = "point_buy"
    /\ call.args.scores = ScoresOf(<<15, 15, 15, 15, 8, 8>>)
    /\ "point_buy" \in DOMAIN result.value

(***************************************************************************)
(* C19, C20: the validator on incomplete characters                        *)
(***************************************************************************)

\* a character with no class, no species, no background and no ability scores
IsEmptyCharacter(c) ==
    /\ c.dnd_class = NoneVal
    /\ c.species = NoneVal
    /\ c.background = NoneVal
    /\ c.abilities = NoneVal

\* C19: for a character with no class, no species, no background and no ability scores,
\* validate_complete_character returns a violation for each of class, species,
\* background and abilities, all four distinct, and one for the name when it is blank;
\* get_character_warnings returns no warnings.
C19_EmptyCharacter ==
    (pc = "done" /\ character # NoCharacter /\ IsEmptyCharacter(character))
        => /\ call.op = "validate_complete_character"
                => /\ result.kind = "value"
                   /\ {"class", "species", "background", "abilities"}
                          \subseteq DOMAIN result.value
                   /\ \A k \in {"class", "species", "background", "abilities"} :
                          Len(result.value[k]) >= 1
                   /\ \A k, l \in {"class", "species", "background", "abilities"} :
                          k # l => result.value[k] # result.value[l]
                   /\ character.character_name \in {"", " "}
                          => /\ "name" \in DOMAIN result.value
                             /\ Len(result.value["name"]) >= 1
           /\ call.op = "get_character_warnings" => result = Value(EmptyDict)

\* a blank-named character with nothing chosen, owning a feat with a class prerequisite
\* and an equipped armor, got its five required-field violations
C19_Witness ==
    /\ pc = "done"
    /\ call.op = "validate_complete_character"
    /\ IsEmptyCharacter(character)
    /\ character.character_name = " "
    /\ "Fighting Initiate" \in character.feats
    /\ character.equipment # <<>>
    /\ result.kind = "value"
    /\ {"name", "class", "species", "background", "abilities"} \subseteq DOMAIN result.value

\* C20: validate_complete_character and get_character_warnings return a map of messages
\* for every character, also for one with no class or no ability scores that owns
\* feats or equipment; they never raise.
C20_ValidatorNeverRaises ==
    (pc = "done" /\ call.op \in {"validate_complete_character", "get_character_warnings"})
        => result.kind = "value"

\* C20, what does hold: without a class and without ability scores neither operation
\* raises
C20_IncompleteNeverRaises ==
    (/\ pc = "done"
     /\ call.op \in {"validate_complete_character", "get_character_warnings"}
     /\ character.dnd_class = NoneVal
     /\ character.abilities = NoneVal)
        => result.kind = "value"

\* a character with a class was validated
C20_WithClass ==
    /\ pc = "done"
    /\ call.op = "validate_complete_character"
    /\ character.dnd_class = Fighter
    /\ result = Raised("AttributeError")

\* a character without a class, with ability scores and a feat that has a class
\* prerequisite was validated
C20_ClassPrerequisite ==
    /\ pc = "done"
    /\ call.op = "validate_complete_character"
    /\ character.dnd_class = NoneVal
    /\ character.abilities # NoneVal
    /\ "Fighting Initiate" \in character.feats
    /\ result = Raised("AttributeError")

(***************************************************************************)
(* C21: feats and ASI opportunities                                        *)
(***************************************************************************)

\* the ASI levels of a class by its name: 4, 8, 12, 16, 19, with 6 and 14 added for the
\* Fighter and 10 for the Rogue
AsiSchedule(class_name) ==
    {4, 8, 12, 16, 19}
    \cup (IF class_name = "Fighter" THEN {6, 14} ELSE {})
    \cup (IF class_name = "Rogue" THEN {10} ELSE {})

\* the ASI opportunities of a character: none without a class
AsiSlots(c) ==
    IF c.dnd_class = NoneVal THEN 0
    ELSE Cardinality({l \in AsiSchedule(c.dnd_class.name) : l <= c.level})

\* the feats of a character whose source is not 'background'
NonBackgroundFeats(c) == Cardinality(c.feats \ c.background_feats)

\* C21: validate_character_feats reports a too-many-feats violation if and only if the
\* number of feats whose source is not 'background' exceeds the number of ASI levels
\* that are <= the character's level.
C21_TooManyFeats ==
    (pc = "done" /\ call.op = "validate_character_feats")
        => /\ result.kind = "value"
           /\ "too_many_feats" \in DOMAIN result.value
                  <=> NonBackgroundFeats(character) > AsiSlots(character)

\* C21, what does hold: whenever validate_character_feats returns, it reports a
\* too-many-feats violation exactly when the feats whose source is not 'background'
\* exceed the ASI opportunities
C21_TooManyFeatsWhenReturned ==
    (pc = "done" /\ call.op = "validate_character_feats" /\ result.kind = "value")
        => ("too_many_feats" \in DOMAIN result.value
                <=> NonBackgroundFeats(character) > AsiSlots(character))

\* a level-4 Fighter with two feats taken outside the background was told it has too many
C21_Reported ==
    /\ pc = "done"
    /\ call.op = "validate_character_feats"
    /\ character.dnd_class = Fighter
    /\ character.level = 4
    /\ NonBackgroundFeats(character) = 2
    /\ result.kind = "value"
    /\ "too_many_feats" \in DOMAIN result.value

\* a classless character with ability scores and the feat 'Fighting Initiate' got no
\* report at all
C21_Raised ==
    /\ pc = "done"
    /\ call.op = "validate_character_feats"
    /\ character.dnd_class = NoneVal
    /\ NonBackgroundFeats(character) > 0
    /\ result = Raised("AttributeError")

(***************************************************************************)
(* C22: equipment validation                                               *)
(***************************************************************************)

\* the equipped rows of a character that satisfy a test on the item
EquippedBodyArmor(c) ==
    {i \in 1..Len(c.equipment) :
        /\ c.equipment[i].equipped
        /\ c.equipment[i].equipment.armor # NoneVal
        /\ c.equipment[i].equipment.armor.armor_type # "shield"}
EquippedShield(c) ==
    \E i \in 1..Len(c.equipment) :
        /\ c.equipment[i].equipped
        /\ \/ c.equipment[i].equipment.name \in {"Shield", "Wooden Shield"}
           \/ /\ c.equipment[i].equipment.armor # NoneVal
              /\ c.equipment[i].equipment.armor.armor_type = "shield"
EquippedTwoHanded(c) ==
    \E i \in 1..Len(c.equipment) :
        /\ c.equipment[i].equipped
        /\ c.equipment[i].equipment.weapon # NoneVal
        /\ "two-handed" \in c.equipment[i].equipment.weapon.properties

\* C22: validate_character_equipment reports a multiple-armor violation exactly when
\* more than one piece of body armor is equipped (a shield does not count), a shield
\* conflict exactly when a shield and a two-handed weapon are both equipped, and an
\* encumbrance violation exactly when the encumbrance status is 'overloaded'.
C22_EquipmentViolations ==
    (pc = "done" /\ call.op = "validate_character_equipment")
        => /\ result.kind = "value"
           /\ "multiple_armor" \in DOMAIN result.value
                  <=> Cardinality(EquippedBodyArmor(character)) > 1
           /\ "shield_conflict" \in DOMAIN result.value
                  <=> (EquippedShield(character) /\ EquippedTwoHanded(character))
           /\ "encumbrance" \in DOMAIN result.value
                  <=> get_encumbrance_status(character) = "overloaded"

\* C22, what does hold: for a character with a class, when the validation returns, every
\* equipped Armor row counts as a piece of armor, shields included, and the shield
\* conflict and the encumbrance violation are reported as stated
C22_WhenReturned ==
    (/\ pc = "done"
     /\ call.op = "validate_character_equipment"
     /\ character.dnd_class # NoneVal
     /\ result.kind = "value")
        => /\ "multiple_armor" \in DOMAIN result.value
                  <=> Cardinality({i \in 1..Len(character.equipment) :
                                      /\ character.equipment[i].equipped
                                      /\ character.equipment[i].equipment.armor # NoneVal}) > 1
           /\ "shield_conflict" \in DOMAIN result.value
                  <=> (EquippedShield(character) /\ EquippedTwoHanded(character))
           /\ "encumbrance" \in DOMAIN result.value
                  <=> get_encumbrance_status(character) = "overloaded"

\* a Fighter with a Chain Mail and a Shield equipped, and nothing else, was told it wears
\* multiple pieces of armor
C22_ShieldCounted ==
    /\ pc = "done"
    /\ call.op = "validate_character_equipment"
    /\ character.dnd_class = Fighter
    /\ character.equipment = <<EquipmentRow(ChainMail, TRUE, 1), EquipmentRow(ShieldArmor, TRUE, 1)>>
    /\ result.kind = "value"
    /\ "multiple_armor" \in DOMAIN result.value

\* on SQLite the validation of a character with a shield equipped raised
C22_ShieldRaised ==
    /\ pc = "done"
    /\ call.op = "validate_character_equipment"
    /\ call.args.backend = "sqlite3"
    /\ EquippedShield(character)
    /\ result = Raised("NotSupportedError")

\* a shield conflict was reported
C22_ConflictReported ==
    /\ pc = "done"
    /\ call.op = "validate_character_equipment"
    /\ result.kind = "value"
    /\ "shield_conflict" \in DOMAIN result.value

(***************************************************************************)
(* C23: the lifecycle state                                                *)
(***************************************************************************)

\* draft -> complete -> archived
StateRank(state) ==
    CASE state = "draft" -> 0 [] state = "complete" -> 1 [] state = "archived" -> 2

\* C23: the lifecycle state of a character only moves forward along
\* draft -> complete -> archived, and every newly created or duplicated character
\* starts in draft.
C23_LifecycleForward ==
    [][character' # NoCharacter
          => IF character # NoCharacter /\ character'.id = character.id
             THEN StateRank(character'.character_state)
                      >= StateRank(character.character_state)
             ELSE character'.character_state = "draft"]_vars

\* C23, what does hold: create, the wizard steps, save-draft, finalize of a character
\* that is not archived, and the API duplicate never move a state back, and the rows
\* they create start in draft
C23_ForwardWithoutUpdate ==
    [][(/\ character' # NoCharacter
        /\ call'.op \notin {"serializer_update", "character_duplicate"}
        /\ ~(call'.op = "finalize" /\ character.character_state = "archived"))
          => IF character # NoCharacter /\ character'.id = character.id
             THEN StateRank(character'.character_state)
                      >= StateRank(character.character_state)
             ELSE character'.character_state = "draft"]_vars

\* a complete character was sent back to draft by a detail-serializer update
C23_BackToDraft ==
    /\ call.op = "serializer_update"
    /\ call.args.character_state = <<"draft">>
    /\ result.kind = "value"
    /\ character.is_complete
    /\ character.character_state = "draft"

\* the copy made by the frontend duplicate of a complete character is complete
C23_CompleteCopy ==
    /\ call.op = "character_duplicate"
    /\ character # NoCharacter
    /\ character.id = 2
    /\ character.character_state = "complete"

(***************************************************************************)
(* Recommendation engine: recommendation_service.py                        *)
(***************************************************************************)
MaxSpread == 2      \* assigned scores range over 8..8 + MaxSpread

\* a priority dict written as the abilities from priority 1 to priority 6
Ranked(order) ==
    [a \in {order[i] : i \in 1..Len(order)} |-> CHOOSE i \in 1..Len(order) : order[i] = a]

\* RecommendationService.recommend_ability_score_priority
recommend_ability_score_priority(class_name) ==
    CASE class_name \in {"Fighter", "Barbarian"} ->
             Ranked(<<"strength", "constitution", "dexterity",
                      "wisdom", "charisma", "intelligence">>)
      [] class_name = "Wizard" ->
             Ranked(<<"intelligence", "constitution", "dexterity",
                      "wisdom", "charisma", "strength">>)
      [] class_name = "Rogue" ->
             Ranked(<<"dexterity", "constitution", "intelligence",
                      "wisdom", "charisma", "strength">>)
      [] class_name = "Cleric" ->
             Ranked(<<"wisdom", "constitution", "strength",
                      "charisma", "dexterity", "intelligence">>)
      [] class_name = "Ranger" ->
             Ranked(<<"dexterity", "wisdom", "constitution",
                      "strength", "charisma", "intelligence">>)
      [] class_name = "Bard" ->
             Ranked(<<"charisma", "dexterity", "constitution",
                      "wisdom", "intelligence", "strength">>)
      [] class_name = "Druid" ->
             Ranked(<<"wisdom", "constitution", "dexterity",
                      "strength", "intelligence", "charisma">>)
      [] class_name = "Paladin" ->
             Ranked(<<"strength", "charisma", "constitution",
                      "wisdom", "dexterity", "intelligence">>)
      [] class_name \in {"Sorcerer", "Warlock"} ->
             Ranked(<<"charisma", "constitution", "dexterity",
                      "wisdom", "intelligence", "strength">>)
      [] class_name = "Monk" ->
             Ranked(<<"dexterity", "wisdom", "constitution",
                      "strength", "intelligence", "charisma">>)
      [] OTHER -> EmptyDict

\* sorted(priorities.items(), key=lambda x: x[1]): the keys, lowest priority number first
RECURSIVE ByPriority(_, _)
ByPriority(priorities, keys) ==
    IF keys = {} THEN <<>>
    ELSE LET first == CHOOSE a \in keys : \A b \in keys : priorities[a] <= priorities[b]
         IN  <<first>> \o ByPriority(priorities, keys \ {first})

\* a mutant: the scores are handed out in the order they were given
recommend_ability_score_assignment_unsorted(class_name, scores) ==
    LET priorities == recommend_ability_score_priority(class_name)
        abilities_by_priority == ByPriority(priorities, DOMAIN priorities)
        assigned == {i \in 1..Len(abilities_by_priority) : i - 1 < Len(scores)}
    IN  [a \in {abilities_by_priority[i] : i \in assigned} |->
            scores[CHOOSE i \in assigned : abilities_by_priority[i] = a]]

\* RecommendationService.recommend_ability_score_assignment
recommend_ability_score_assignment(class_name, scores) ==
    LET priorities == recommend_ability_score_priority(class_name)
        sorted_scores == SortedDesc(scores)
        abilities_by_priority == ByPriority(priorities, DOMAIN priorities)
        assigned == {i \in 1..Len(abilities_by_priority) : i - 1 < Len(sorted_scores)}
    IN  [a \in {abilities_by_priority[i] : i \in assigned} |->
            sorted_scores[CHOOSE i \in assigned : abilities_by_priority[i] = a]]

\* the classes of the priority table, and one class it does not have
TableClasses ==
    {"Fighter", "Wizard", "Rogue", "Cleric", "Ranger", "Barbarian", "Bard", "Druid",
     "Paladin", "Sorcerer", "Warlock", "Monk"}
ClassNameArgs == TableClasses \cup {"Artificer"}

StandardArray == <<15, 14, 13, 12, 10, 8>>
AssignedScores == 8..(8 + MaxSpread)

\* lists of six scores
ScoreListArgs ==
    [1..6 -> AssignedScores] \cup {StandardArray, Reversed(StandardArray)}

RecommendAbilityScoreAssignment ==
    /\ pc = "idle"
    /\ character = NoCharacter
    /\ \E class_name \in ClassNameArgs, scores \in ScoreListArgs :
        /\ call' = [op |-> "recommend_ability_score_assignment",
                    args |-> [class_name |-> class_name, scores |-> scores]]
        /\ result' = Value(recommend_ability_score_assignment(class_name, scores))
    /\ pc' = "done"
    /\ UNCHANGED <<draws, character>>

\* RecommendationService.recommend_background_for_class: CLASS_BACKGROUND_SYNERGIES.get
recommend_background_for_class(class_name) ==
    CASE class_name = "Fighter" -> {"Soldier", "Guard", "Noble", "Folk Hero"}
      [] class_name = "Wizard" -> {"Sage", "Hermit", "Scribe", "Noble"}
      [] class_name = "Rogue" -> {"Criminal", "Charlatan", "Entertainer", "Urchin"}
      [] class_name = "Cleric" -> {"Acolyte", "Hermit", "Noble", "Folk Hero"}
      [] class_name = "Ranger" -> {"Outlander", "Folk Hero", "Guide", "Hermit"}
      [] class_name = "Barbarian" -> {"Outlander", "Folk Hero", "Tribal Member", "Soldier"}
      [] class_name = "Bard" -> {"Entertainer", "Noble", "Charlatan", "Guild Artisan"}
      [] class_name = "Druid" -> {"Hermit", "Outlander", "Folk Hero", "Guide"}
      [] class_name = "Paladin" -> {"Noble", "Acolyte", "Soldier", "Folk Hero"}
      [] class_name = "Sorcerer" -> {"Noble", "Hermit", "Entertainer", "Folk Hero"}
      [] class_name = "Warlock" -> {"Charlatan", "Hermit", "Entertainer", "Noble"}
      [] class_name = "Monk" -> {"Hermit", "Acolyte", "Folk Hero", "Outlander"}
      [] OTHER -> {}

\* RecommendationService.recommend_species_for_class: CLASS_SPECIES_SYNERGIES.get
recommend_species_for_class(class_name) ==
    CASE class_name = "Fighter" -> {"Human", "Dwarf", "Dragonborn", "Goliath"}
      [] class_name = "Wizard" -> {"Human", "Elf", "Gnome", "Tiefling"}
      [] class_name = "Rogue" -> {"Halfling", "Elf", "Human", "Tiefling"}
      [] class_name = "Cleric" -> {"Human", "Dwarf", "Dragonborn", "Aasimar"}
      [] class_name = "Ranger" -> {"Elf", "Human", "Halfling", "Goliath"}
      [] class_name = "Barbarian" -> {"Goliath", "Dragonborn", "Human", "Orc"}
      [] class_name = "Bard" -> {"Human", "Elf", "Halfling", "Tiefling"}
      [] class_name = "Druid" -> {"Elf", "Human", "Halfling", "Goliath"}
      [] class_name = "Paladin" -> {"Human", "Dragonborn", "Aasimar", "Dwarf"}
      [] class_name = "Sorcerer" -> {"Dragonborn", "Tiefling", "Elf", "Human"}
      [] class_name = "Warlock" -> {"Tiefling", "Human", "Elf", "Halfling"}
      [] class_name = "Monk" -> {"Human", "Elf", "Halfling", "Dragonborn"}
      [] OTHER -> {}

\* the if/elif chain over the primary ability score
PrimaryPoints(primary_score) ==
    IF primary_score >= 15 THEN 30
    ELSE IF primary_score >= 13 THEN 20
    ELSE IF primary_score >= 10 THEN 10 ELSE 0

\* the if/elif chain over the Constitution score
ConstitutionPoints(con_score) ==
    IF con_score >= 14 THEN 20
    ELSE IF con_score >= 12 THEN 15
    ELSE IF con_score >= 10 THEN 10 ELSE 0

\* the if/elif chain from the score to the grade
GradeOf(score) ==
    IF score >= 90 THEN "A+"
    ELSE IF score >= 80 THEN "A"
    ELSE IF score >= 70 THEN "B"
    ELSE IF score >= 60 THEN "C"
    ELSE IF score >= 50 THEN "D" ELSE "F"

\* RecommendationService.get_build_optimization_score. The primary ability is read with
\* getattr(character.abilities, f"{primary_ability.lower()}_score"), and primary_ability
\* is the three-letter code of the DnDClass row. percentage is int((score / 100) * 100),
\* which is the score itself for every multiple of 5 from 0 to 100.
get_build_optimization_score(c) ==
    IF c.dnd_class = NoneVal \/ c.abilities = NoneVal
    THEN Value([score |-> 0, grade |-> "F", reason |-> "Incomplete character"])
    ELSE LET primary_ability == c.dnd_class.primary_ability
             primary_score == GetAttr(c.abilities, Lower(primary_ability) \o "_score")
         IN  IF primary_score.kind = "error" THEN primary_score
             ELSE LET con_score == c.abilities.constitution_score
                      background_points ==
                          IF c.background # NoneVal
                             /\ c.background.name
                                    \in recommend_background_for_class(c.dnd_class.name)
                          THEN 15 ELSE 0
                      species_points ==
                          IF c.species # NoneVal
                             /\ c.species.name
                                    \in recommend_species_for_class(c.dnd_class.name)
                          THEN 15 ELSE 0
                      all_scores ==
                          {c.abilities.strength_score, c.abilities.dexterity_score,
                           c.abilities.constitution_score,
                           c.abilities.intelligence_score, c.abilities.wisdom_score,
                           c.abilities.charisma_score}
                      balanced_points == IF \A s \in all_scores : s >= 8 THEN 10 ELSE 0
                      skill_points == IF c.skills # {} THEN 10 ELSE 0
                      score == PrimaryPoints(primary_score.value)
                                   + ConstitutionPoints(con_score) + background_points
                                   + species_points + balanced_points + skill_points
                  IN  Value([score |-> score, grade |-> GradeOf(score),
                             max_score |-> 100, percentage |-> score])

\* builds to score: class, abilities, background, species and skills vary
BuildCharacters ==
    {[BaseCharacter EXCEPT
          !.dnd_class = class, !.species = species, !.background = background,
          !.abilities = abilities, !.skills = skills] :
        class \in DnDClasses \cup {NoneVal},
        species \in {Human, Dwarf, NoneVal},
        background \in {Acolyte, Soldier, NoneVal},
        abilities \in {NoneVal, Abilities(16, 14, 14), Abilities(13, 10, 12),
                       Abilities(7, 10, 9)},
        skills \in {{}, {"Athletics"}}}

GetBuildOptimizationScore ==
    /\ pc = "idle"
    /\ character # NoCharacter
    /\ call' = [op |-> "get_build_optimization_score", args |-> NoArgs]
    /\ result' = get_build_optimization_score(character)
    /\ pc' = "done"
    /\ UNCHANGED <<draws, character>>

InitRecommend ==
    /\ pc = "idle"
    /\ call = NoCall
    /\ draws = <<>>
    /\ result = NoResult
    /\ character \in {NoCharacter} \cup BuildCharacters

NextRecommend ==
    \/ RecommendAbilityScoreAssignment
    \/ GetBuildOptimizationScore

SpecRecommend == InitRecommend /\ [][NextRecommend]_vars

(***************************************************************************)
(* C24: assigning scores by class priority                                 *)
(***************************************************************************)
C24_Called == pc = "done" /\ call.op = "recommend_ability_score_assignment"

\* how many times the value v occurs in the list of scores
Occurrences(scores, v) == Cardinality({i \in 1..Len(scores) : scores[i] = v})

\* C24: for a class of the priority table and any list of six scores, the assignment
\* gives each input score to exactly one ability (the assigned values are the input
\* scores, value by value as often), and an ability with a better priority never gets
\* a lower score than one with a worse priority, so the priority-1 ability gets the
\* highest score; for an unknown class the assignment is empty.
C24_AssignmentByPriority ==
    C24_Called =>
        LET class_name == call.args.class_name
            scores == call.args.scores
            priorities == recommend_ability_score_priority(class_name)
            assignment == result.value
        IN  /\ result.kind = "value"
            /\ IF class_name \in TableClasses
               THEN /\ DOMAIN assignment = AbilityNames
                    /\ \A v \in {scores[i] : i \in 1..Len(scores)}
                                \cup {assignment[a] : a \in AbilityNames} :
                           Cardinality({a \in AbilityNames : assignment[a] = v})
                               = Occurrences(scores, v)
                    /\ \A a, b \in AbilityNames :
                           priorities[a] < priorities[b] => assignment[a] >= assignment[b]
                    /\ \A a \in AbilityNames :
                           priorities[a] = 1
                               => \A i \in 1..Len(scores) : assignment[a] >= scores[i]
               ELSE assignment = EmptyDict

\* a Fighter handed the standard array backwards: Strength 15, Constitution 14,
\* Intelligence 8
C24_Witness ==
    /\ C24_Called
    /\ call.args.class_name = "Fighter"
    /\ call.args.scores = <<8, 10, 12, 13, 14, 15>>
    /\ result.value.strength = 15
    /\ result.value.constitution = 14
    /\ result.value.intelligence = 8

\* a class without a table gets nothing
C24_UnknownClass ==
    C24_Called /\ call.args.class_name = "Artificer" /\ result = Value(EmptyDict)

(***************************************************************************)
(* C25: the build optimization score                                       *)
(***************************************************************************)
C25_Called == pc = "done" /\ call.op = "get_build_optimization_score"

\* the score of the ability the class names as primary
PrimaryScoreOf(c) ==
    CASE c.dnd_class.primary_ability = "STR" -> c.abilities.strength_score
      [] c.dnd_class.primary_ability = "DEX" -> c.abilities.dexterity_score
      [] c.dnd_class.primary_ability = "CON" -> c.abilities.constitution_score
      [] c.dnd_class.primary_ability = "INT" -> c.abilities.intelligence_score
      [] c.dnd_class.primary_ability = "WIS" -> c.abilities.wisdom_score
      [] c.dnd_class.primary_ability = "CHA" -> c.abilities.charisma_score

\* the sum of points the score is meant to be
ExpectedBuildScore(c) ==
    (IF PrimaryScoreOf(c) >= 15 THEN 30 ELSE IF PrimaryScoreOf(c) >= 13 THEN 20
     ELSE IF PrimaryScoreOf(c) >= 10 THEN 10 ELSE 0)
    + (IF c.abilities.constitution_score >= 14 THEN 20
       ELSE IF c.abilities.constitution_score >= 12 THEN 15
       ELSE IF c.abilities.constitution_score >= 10 THEN 10 ELSE 0)
    + (IF c.background # NoneVal
          /\ c.background.name \in recommend_background_for_class(c.dnd_class.name)
       THEN 15 ELSE 0)
    + (IF c.species # NoneVal
          /\ c.species.name \in recommend_species_for_class(c.dnd_class.name)
       THEN 15 ELSE 0)
    + (IF \A a \in DOMAIN c.abilities : c.abilities[a] >= 8 THEN 10 ELSE 0)
    + (IF c.skills # {} THEN 10 ELSE 0)

C25_Incomplete == character.dnd_class = NoneVal \/ character.abilities = NoneVal

\* C25: get_build_optimization_score always returns a score in 0..100 that is the sum
\* of the primary-ability tier, the Constitution tier, 15 for background synergy, 15
\* for species synergy, 10 when no ability is below 8 and 10 when a skill is selected,
\* with the grade A+ from 90, A from 80, B from 70, C from 60, D from 50 and F below;
\* a character without class or ability scores scores 0 with grade F.
C25_BuildScore ==
    C25_Called =>
        /\ result.kind = "value"
        /\ result.value.score \in 0..100
        /\ result.value.score
               = (IF C25_Incomplete THEN 0 ELSE ExpectedBuildScore(character))
        /\ result.value.grade = GradeOf(result.value.score)

\* what does hold: without class or ability scores the score is 0 with grade F
C25_IncompleteScoresZero ==
    (C25_Called /\ C25_Incomplete)
        => result.kind = "value" /\ result.value.score = 0 /\ result.value.grade = "F"

\* what does hold: with a class and ability scores the call raises
C25_BuildRaises ==
    (C25_Called /\ ~C25_Incomplete) => result = Raised("AttributeError")

\* a Fighter with Strength 16 is not scored
C25_FighterRaised ==
    /\ C25_Called
    /\ character.dnd_class = Fighter
    /\ character.abilities = Abilities(16, 14, 14)
    /\ result = Raised("AttributeError")

(***************************************************************************)
(* C26: roll_dice keeps at least one die                                   *)
(***************************************************************************)
C26_Returned ==
    pc = "done" /\ call.op = "roll_dice" /\ result.kind = "value"

\* the dice the returned total was summed over
C26_Kept == roll_dice_kept(draws, call.args.drop_lowest, call.args.drop_highest)

\* C26: for all integer arguments, negative drop counts included, whenever roll_dice
\* returns a result at least one rolled die is kept and contributes to the total: the
\* total is never the bare modifier with every die dropped, and never more than N
\* dice are kept.
C26_KeepsADie ==
    C26_Returned =>
        /\ Len(C26_Kept) >= 1
        /\ Len(C26_Kept) <= call.args.count
        /\ result.value.total > call.args.modifier

\* what does hold: with drop counts that are not negative, N - DL - DH dice are kept
C26_KeepsADieWithoutNegativeDrops ==
    (C26_Returned /\ call.args.drop_lowest >= 0 /\ call.args.drop_highest >= 0) =>
        /\ Len(C26_Kept) = call.args.count - call.args.drop_lowest - call.args.drop_highest
        /\ Len(C26_Kept) >= 1
        /\ result.value.total > call.args.modifier

\* two dice, drop_lowest -1 and drop_highest 2: the guard sees 1 < 2, both dice are
\* dropped and the total is the modifier
C26_AllDropped ==
    /\ C26_Returned
    /\ call.args.count = 2
    /\ call.args.drop_lowest = 0 - 1
    /\ call.args.drop_highest = 2
    /\ C26_Kept = <<>>
    /\ result.value.total = call.args.modifier

(***************************************************************************)
(* C27: a complete character has its required parts                        *)
(***************************************************************************)
C27_MarkedComplete ==
    character # NoCharacter
        /\ (character.is_complete \/ character.character_state = "complete")

C27_HasRequiredParts ==
    /\ character.dnd_class # NoneVal
    /\ character.species # NoneVal
    /\ character.background # NoneVal
    /\ character.abilities # NoneVal

\* C27: in every reachable state a character whose completion flag is set
\* (is_complete true or character_state 'complete') has a class, a species, a
\* background and ability scores: neither finalize nor a wizard step submission marks
\* a character complete while one of them is missing.
C27_CompleteHasRequiredParts == C27_MarkedComplete => C27_HasRequiredParts

\* finalize on a character just created through the API: complete with no class
C27_FinalizedWithoutClass ==
    /\ call.op = "finalize"
    /\ character.is_complete
    /\ character.character_state = "complete"
    /\ character.dnd_class = NoneVal

\* the last wizard step on a character the wizard just created: is_complete with no
\* class and no ability scores
C27_WizardCompletedEmpty ==
    /\ call.op = "character_create_step"
    /\ call.args.step = LastStep
    /\ character.is_complete
    /\ character.dnd_class = NoneVal
    /\ character.abilities = NoneVal

(***************************************************************************)
(* C28: the completion flag and the lifecycle state                        *)
(***************************************************************************)
\* C28: in every reachable state the completion flag and the lifecycle state agree:
\* is_complete is true if and only if character_state is 'complete' (or 'archived'
\* after completion); completing the wizard's last step, finalizing through the API
\* and duplicating a completed character all leave the two fields consistent.
C28_FlagAgreesWithState ==
    character # NoCharacter
        => (character.is_complete
                <=> character.character_state \in {"complete", "archived"})

\* what does hold: create, finalize and the API duplicate leave the fields in agreement
C28_AgreeAfterCreateAndFinalize ==
    (call.op \in {"create", "finalize", "duplicate"} /\ result.kind = "value")
        => (result.value.is_complete
                <=> result.value.character_state \in {"complete", "archived"})

\* the wizard's last step sets the flag and leaves the state 'draft'
C28_WizardFlagOnly ==
    /\ call.op = "character_create_step"
    /\ call.args.step = LastStep
    /\ character.is_complete
    /\ character.character_state = "draft"

\* the frontend copy of a finalized character: flag cleared, state still 'complete'
C28_CopyStateOnly ==
    /\ call.op = "character_duplicate"
    /\ character.id > 1
    /\ ~character.is_complete
    /\ character.character_state = "complete"

(***************************************************************************)
(* C29: the toughness species                                              *)
(***************************************************************************)
\* the same character with a species that is not the toughness species
C29_OtherSpecies == [character EXCEPT !.species = Human]

\* the hit points before the floor at 1, without a species bonus
C29_Unfloored ==
    LET H == character.dnd_class.hit_die
        c == FloorModifier(character.abilities.constitution_score)
        L == character.level
    IN  H + c + (L - 1) * ((H \div 2) + 1 + c)

C29_DwarfScored ==
    /\ Returned("calculate_max_hp")
    /\ character.dnd_class # NoneVal
    /\ character.abilities # NoneVal
    /\ IsToughnessSpecies(character)
    /\ character.level >= 1

\* C29 as stated: for every class, ability scores and level L >= 1, the max HP of a
\* character of the toughness species ('Dwarf') equals the max HP of the otherwise
\* identical character of another species plus exactly L, at level 1 and at every
\* higher level.
C29_ToughnessAddsLevel ==
    C29_DwarfScored
        => result.value = calculate_max_hp(C29_OtherSpecies) + character.level

\* C29 amended: the bonus of L is added before the floor at 1. The Dwarf's max HP is
\* max(1, U + L) for the unfloored hit points U = H + c + (L-1) * (floor(H/2) + 1 + c),
\* the other character's is max(1, U): the Dwarf has exactly L more whenever U >= 1, and
\* fewer than L more (but never less than the other) when U < 1 and the other
\* character's hit points were raised to 1.
C29_ToughnessBeforeFloor ==
    C29_DwarfScored =>
        LET other == calculate_max_hp(C29_OtherSpecies)
            L == character.level
        IN  /\ result.value = Max(1, C29_Unfloored + L)
            /\ other = Max(1, C29_Unfloored)
            /\ (C29_Unfloored >= 1 => result.value = other + L)
            /\ (C29_Unfloored < 1
                    => result.value >= other /\ result.value < other + L)

\* a level-5 Dwarf Fighter with Constitution 14 has 49 hit points, the Human has 44
C29_Witness ==
    /\ C29_DwarfScored
    /\ character.dnd_class = Fighter
    /\ character.level = 5
    /\ character.abilities.constitution_score = 14
    /\ calculate_max_hp(C29_OtherSpecies) = 44
    /\ result = Value(49)

\* a level-3 Dwarf Wizard with Constitution 1: the Human has 1 hit point (raised from
\* -1), the Dwarf has 2, not 4
C29_FlooredTwin ==
    /\ C29_DwarfScored
    /\ character.dnd_class = Wizard
    /\ character.level = 3
    /\ character.abilities.constitution_score = 1
    /\ calculate_max_hp(C29_OtherSpecies) = 1
    /\ result = Value(2)

(***************************************************************************)
(* C30: validate_dice_notation and parse_dice_notation                     *)
(***************************************************************************)
\* parse_dice_notation raises on the notation: no match, or roll_dice refuses the
\* count or the sides
C30_ParseRaises(notation) ==
    LET match == MatchNotation(NormalizeNotation(notation))
    IN  \/ match = NoneVal
        \/ roll_dice_invalid(notation_count(match.count_str),
                             IntOfDigits(match.sides_str), 0, 0)

\* C30: validate_dice_notation agrees with parse_dice_notation on every string: it
\* returns true if and only if parse_dice_notation would succeed on that string, and
\* false exactly when parsing would raise the invalid-input error, so a notation the
\* roll endpoint has validated never fails when it is then rolled.
C30_ValidateAgreesWithParse ==
    Returned("validate_dice_notation")
        => (result.value <=> ~C30_ParseRaises(call.args.notation))

\* what does hold: a notation that fails validation is never parsed, and a validated
\* notation is parsed unless its count or its sides are 0
C30_ValidateIsTheMatch ==
    Returned("validate_dice_notation") =>
        LET match == MatchNotation(NormalizeNotation(call.args.notation))
        IN  /\ ~result.value => C30_ParseRaises(call.args.notation)
            /\ (result.value /\ C30_ParseRaises(call.args.notation))
                   => \/ notation_count(match.count_str) = 0
                      \/ IntOfDigits(match.sides_str) = 0

\* parse_dice_notation raises exactly on the notations C30_ParseRaises names
C30_ParseRaisesAsNamed ==
    Returned("parse_dice_notation")
        => (result.kind = "error" <=> C30_ParseRaises(call.args.notation))

\* "0d2" is validated
C30_ZeroDiceValidated ==
    /\ Returned("validate_dice_notation")
    /\ call.args.notation = <<"0", "d", "2">>
    /\ result = Value(TRUE)

\* "0d2" is not parsed
C30_ZeroDiceNotParsed ==
    /\ Returned("parse_dice_notation")
    /\ call.args.notation = <<"0", "d", "2">>
    /\ result = Raised("ValueError")

====
